---- MODULE Spec2Model ----
(***************************************************************************)
(* Pack-Opener: a card-pack opening simulator (src/script.js,              *)
(* src/unnamed/part_000).  src/script.js holds two successive versions of  *)
(* the page script: lines 1-278 (validated loader, plain generator) and    *)
(* lines 281-720 (unvalidated loader, uniqueness generator, recent cards). *)
(* They are modelled side by side over one set of variables; a             *)
(* specification picks the handlers of one version.                        *)
(*                                                                         *)
(* Strings the code inspects character by character (name, number, image,  *)
(* URLs) are sequences of one-character strings; rarity is only compared   *)
(* and stays a TLA+ string.  The page is served from https://host/, and    *)
(* new URL(u).href is u itself on the URLs used here (lower-case scheme    *)
(* and host, a path present).  Weights are held in tenths (1.5 is 15), a   *)
(* roll is floor(10 * Math.random() * total): every comparison the code    *)
(* makes is against a multiple of a tenth, so the floor decides alike.     *)
(* openPack runs to completion in the single JavaScript thread; it is      *)
(* unrolled into one step per slot plus a commit step, and no other        *)
(* handler is enabled until it has left pc = "idle" and come back.         *)
(***************************************************************************)
EXTENDS Integers, Sequences, FiniteSets, TLC

VARIABLES
  version,           \* "v1" (script.js:1-278) | "v2" (script.js:281-720)
  cards,             \* the loaded catalog (script.js:1), a sequence of cards
  cardsType,         \* "array" | "undefined" | "number": JS type of `cards`
  availableRarities, \* rarity -> sequence of cards (script.js:1)
  stats,             \* [packsOpened, totalCards, rarities] (script.js:2)
  collection,        \* insertion-ordered entries keyed by name_number (script.js:3)
  recentCards,       \* most recent first (script.js:285)
  localStorage,      \* [packStats, collection, recentCards], each <<>> or <<value>>
  collectionFilter,  \* value of the collection filter <select>
  collectionDiv,     \* the entries the collection view shows, in order
  inflight,          \* set inputs whose fetch has not settled yet
  pc,                \* "idle" | "pulling" | "commit": position inside openPack
  slot,              \* next slot of the template to draw (1..10)
  pulls,             \* the pulls array of the running openPack
  pulledKeys,        \* identities drawn in this pack (script.js:468)
  outcome,           \* how the last handler ended
  lastOp,            \* <<handler name, input...>> of the last handler that ran
  opens,             \* packs started in this run (bounds the exploration)
  table,             \* pull table handed to the weighted pull (roll harness)
  fetchCall,         \* the running fetchWithCors call: its locals and its result
  lightbox,          \* the MetaLightbox object: [isOpen, currentIndex, cards, currentCard,
                     \* closeOnEscape (config), listeners (attached or removed)]
  timers             \* cleanup timers scheduled by lightbox close, not yet fired

vars == <<version, cards, cardsType, availableRarities, stats, collection, recentCards,
          localStorage, collectionFilter, collectionDiv, inflight, pc, slot, pulls,
          pulledKeys, outcome, lastOp, opens, table, fetchCall, lightbox, timers>>

(***************************************************************************)
(* Bounds                                                                  *)
(***************************************************************************)
MaxPacks == 2

MaxInflight == 1

(***************************************************************************)
(* Values                                                                  *)
(***************************************************************************)
\* JS null in a place where a card is expected.
Null == [null |-> TRUE]

\* weightedRoll's null result; its only use is as a property key of
\* availableRarities, where null is coerced to the string "null".
NullKey == "null"

K == 10

Card(nm, num, rar, img) == [name |-> nm, number |-> num, rarity |-> rar, image |-> img]

Rarities == {"Common", "Uncommon", "Rare", "Double Rare", "Illustration Rare",
             "Ultra Rare", "Special Illustration Rare", "Hyper Rare"}

Table8 == << [rarity |-> "Common", weight |-> 550],
             [rarity |-> "Uncommon", weight |-> 320],
             [rarity |-> "Rare", weight |-> 110],
             [rarity |-> "Illustration Rare", weight |-> 15],
             [rarity |-> "Special Illustration Rare", weight |-> 4],
             [rarity |-> "Hyper Rare", weight |-> 1] >>

Table9 == << [rarity |-> "Common", weight |-> 350],
             [rarity |-> "Uncommon", weight |-> 430],
             [rarity |-> "Rare", weight |-> 180],
             [rarity |-> "Illustration Rare", weight |-> 120],
             [rarity |-> "Special Illustration Rare", weight |-> 23],
             [rarity |-> "Hyper Rare", weight |-> 7] >>

Table10 == << [rarity |-> "Rare", weight |-> 110],
              [rarity |-> "Double Rare", weight |-> 30],
              [rarity |-> "Ultra Rare", weight |-> 10] >>

\* The template of openPack: slots 1-4 Common, 5-7 Uncommon, 8-10 weighted.
SlotRarity_three(i) == IF i <= 3 THEN "Common" ELSE "Uncommon"

SlotRarity(i) == IF i <= 4 THEN "Common" ELSE "Uncommon"

SlotTable(i) == IF i = 8 THEN Table8 ELSE IF i = 9 THEN Table9 ELSE Table10

IsFixedSlot(i) == i \in 1..7

IsWeightedSlot(i) == i \in 8..10

(***************************************************************************)
(* Pool index                                                              *)
(***************************************************************************)
\* cards.forEach of buildAvailableRarities: c.rarity throws on a null
\* element, and the pools filled so far stay as they are.
RECURSIVE buildFrom(_, _, _)
buildFrom(cs, i, acc) ==
  IF i > Len(cs) \/ cs[i] = Null THEN acc
  ELSE LET r == cs[i].rarity
           cur == IF r \in DOMAIN acc THEN acc[r] ELSE <<>>
       IN buildFrom(cs, i + 1, (r :> Append(cur, cs[i])) @@ acc)

buildAvailableRarities(cs) == buildFrom(cs, 1, <<>>)

getByRarity(r) == IF r \in DOMAIN availableRarities THEN availableRarities[r] ELSE <<>>

(***************************************************************************)
(* Random helpers.  k is floor(Math.random() * arr.length).                *)
(***************************************************************************)
randomFrom(arr, k) == IF Len(arr) = 0 THEN Null ELSE arr[k + 1]

orElse_first(a, b) == a

\* a || b on card values: an object is truthy, null is not.
orElse(a, b) == IF a = Null THEN b ELSE a

RandIdx(arr) == IF Len(arr) = 0 THEN {0} ELSE 0..(Len(arr) - 1)

RECURSIVE SumWeights(_, _)
SumWeights(f, n) == IF n = 0 THEN 0 ELSE SumWeights(f, n - 1) + f[n].weight

(***************************************************************************)
(* Weighted roll of the plain generator (script.js:139)                    *)
(***************************************************************************)
HasPool(e) == Len(getByRarity(e.rarity)) > 0

filterTable(tbl) == SelectSeq(tbl, HasPool)

RECURSIVE rollLoop_le(_, _, _)
rollLoop_le(f, roll, i) ==
  IF i > Len(f) THEN f[Len(f)].rarity
  ELSE IF roll <= f[i].weight THEN f[i].rarity
  ELSE rollLoop_le(f, roll - f[i].weight, i + 1)

RECURSIVE rollLoop(_, _, _)
rollLoop(f, roll, i) ==
  IF i > Len(f) THEN f[Len(f)].rarity
  ELSE IF roll < f[i].weight THEN f[i].rarity
  ELSE rollLoop(f, roll - f[i].weight, i + 1)

weightedRoll(tbl, roll) ==
  LET f == filterTable(tbl)
  IN IF Len(f) = 0 THEN NullKey ELSE rollLoop(f, roll, 1)

pullWeighted(tbl, roll, k1, k2) ==
  orElse(randomFrom(getByRarity(weightedRoll(tbl, roll)), k1), randomFrom(cards, k2))

\* The rolls an action draws: both ends of every entry's range of
\* [0, total), in tenths; Math.random() * 0 is 0.
RollSamples(f) ==
  IF SumWeights(f, Len(f)) = 0 THEN {0}
  ELSE UNION {{SumWeights(f, j - 1), SumWeights(f, j) - 1} : j \in {i \in 1..Len(f) : f[i].weight > 0}}

(***************************************************************************)
(* openPack, plain generator (script.js:143-154)                           *)
(***************************************************************************)
NotLoaded_never == FALSE

NotLoaded == cardsType = "number" \/ (cardsType = "array" /\ Len(cards) = 0)

appVars == <<stats, collection, recentCards, localStorage, collectionFilter, collectionDiv,
             inflight>>

harnessVars == <<opens, table>>

libVars == <<fetchCall, lightbox, timers>>

catVars == <<version, cards, cardsType, availableRarities>>

OpenPackNotLoaded ==
  /\ pc = "idle"
  /\ cardsType # "undefined"
  /\ NotLoaded
  /\ outcome' = "alert:Set not loaded"
  /\ lastOp' = <<"openPack">>
  /\ UNCHANGED <<catVars, appVars, pc, slot, pulls, pulledKeys, harnessVars, libVars>>

\* cards is undefined after a failed version 2 load: cards.length throws.
OpenPackThrows ==
  /\ pc = "idle"
  /\ cardsType = "undefined"
  /\ outcome' = "throw:TypeError"
  /\ lastOp' = <<"openPack">>
  /\ UNCHANGED <<catVars, appVars, pc, slot, pulls, pulledKeys, harnessVars, libVars>>

OpenPackStart ==
  /\ pc = "idle"
  /\ cardsType # "undefined"
  /\ ~NotLoaded
  /\ opens < MaxPacks
  /\ opens' = opens + 1
  /\ pc' = "pulling"
  /\ slot' = 1
  /\ pulls' = <<>>
  /\ pulledKeys' = {}
  /\ outcome' = "running"
  /\ lastOp' = <<"openPack">>
  /\ UNCHANGED <<catVars, appVars, table, libVars>>

AfterSlot_early ==
  /\ slot' = slot + 1
  /\ pc' = IF slot = K - 1 THEN "commit" ELSE "pulling"

AfterSlot ==
  /\ slot' = slot + 1
  /\ pc' = IF slot = K THEN "commit" ELSE "pulling"

PullFixed ==
  /\ pc = "pulling"
  /\ version = "v1"
  /\ IsFixedSlot(slot)
  /\ LET pool == getByRarity(SlotRarity(slot))
     IN \E k1 \in RandIdx(pool), k2 \in RandIdx(cards) :
          pulls' = Append(pulls, orElse(randomFrom(pool, k1), randomFrom(cards, k2)))
  /\ AfterSlot
  /\ UNCHANGED <<catVars, appVars, pulledKeys, outcome, lastOp, harnessVars, libVars>>

PullWeighted ==
  /\ pc = "pulling"
  /\ version = "v1"
  /\ IsWeightedSlot(slot)
  /\ \E roll \in RollSamples(filterTable(SlotTable(slot))) :
       \E k1 \in RandIdx(getByRarity(weightedRoll(SlotTable(slot), roll))),
          k2 \in RandIdx(cards) :
            pulls' = Append(pulls, pullWeighted(SlotTable(slot), roll, k1, k2))
  /\ AfterSlot
  /\ UNCHANGED <<catVars, appVars, pulledKeys, outcome, lastOp, harnessVars, libVars>>

(***************************************************************************)
(* openPack, uniqueness generator (script.js:467-554)                      *)
(***************************************************************************)
getCardKey(c) == c.name \o <<"_">> \o c.number

Unpulled_all(c) == TRUE

\* getCardKey is null for a null element, which filterUnpulled drops.
Unpulled(c) == c # Null /\ getCardKey(c) \notin pulledKeys

filterUnpulled(arr) == SelectSeq(arr, Unpulled)

catalogFallback_none(k) == Null

catalogFallback(k) ==
  LET fallback == filterUnpulled(cards)
  IN IF Len(fallback) > 0 THEN randomFrom(fallback, k) ELSE Null

pullUnique_poolOnly(rarity, k1, k2) ==
  randomFrom(filterUnpulled(getByRarity(rarity)), k1)

pullUnique(rarity, k1, k2) ==
  LET available == filterUnpulled(getByRarity(rarity))
  IN IF Len(available) = 0 THEN catalogFallback(k2) ELSE randomFrom(available, k1)

HasUnpulled(e) == Len(filterUnpulled(getByRarity(e.rarity))) > 0

filteredTable(tbl) == SelectSeq(tbl, HasUnpulled)

\* The loop of script.js:510-517; "" stands for a selectedRarity still null
\* (line 518 tests it by truthiness, which "" and null share).
RECURSIVE selectLoop(_, _, _)
selectLoop(f, roll, i) ==
  IF i > Len(f) THEN ""
  ELSE IF roll < f[i].weight THEN f[i].rarity
  ELSE selectLoop(f, roll - f[i].weight, i + 1)

selectedRarity(f, roll) ==
  LET sel == selectLoop(f, roll, 1)
  IN IF sel = "" THEN f[Len(f)].rarity ELSE sel

pullWeightedUnique(tbl, roll, k1, k2) ==
  LET f == filteredTable(tbl)
  IN IF Len(f) = 0 THEN catalogFallback(k2)
     ELSE IF SumWeights(f, Len(f)) = 0 THEN catalogFallback(k2)
     ELSE LET available == filterUnpulled(getByRarity(selectedRarity(f, roll)))
          IN IF Len(available) = 0 THEN catalogFallback(k2)
             ELSE randomFrom(available, k1)

\* script.js:531-534, 548: a null card is not pushed.
PushUnique(card) ==
  IF card = Null
  THEN UNCHANGED <<pulls, pulledKeys>>
  ELSE /\ pulls' = Append(pulls, card)
       /\ pulledKeys' = pulledKeys \cup {getCardKey(card)}

PullUnique ==
  /\ pc = "pulling"
  /\ version = "v2"
  /\ IsFixedSlot(slot)
  /\ \E k1 \in RandIdx(filterUnpulled(getByRarity(SlotRarity(slot)))),
        k2 \in RandIdx(filterUnpulled(cards)) :
          PushUnique(pullUnique(SlotRarity(slot), k1, k2))
  /\ AfterSlot
  /\ UNCHANGED <<catVars, appVars, outcome, lastOp, harnessVars, libVars>>

UniqueAvailable(tbl, roll) ==
  LET f == filteredTable(tbl)
  IN IF Len(f) = 0 \/ SumWeights(f, Len(f)) = 0 THEN <<>>
     ELSE filterUnpulled(getByRarity(selectedRarity(f, roll)))

PullWeightedUnique ==
  /\ pc = "pulling"
  /\ version = "v2"
  /\ IsWeightedSlot(slot)
  /\ \E roll \in RollSamples(filteredTable(SlotTable(slot))) :
       \E k1 \in RandIdx(UniqueAvailable(SlotTable(slot), roll)),
          k2 \in RandIdx(filterUnpulled(cards)) :
            PushUnique(pullWeightedUnique(SlotTable(slot), roll, k1, k2))
  /\ AfterSlot
  /\ UNCHANGED <<catVars, appVars, outcome, lastOp, harnessVars, libVars>>

(***************************************************************************)
(* Card numbers: /^(\d+)([a-z]?)$/i (script.js:80)                         *)
(***************************************************************************)
Digits == <<"0", "1", "2", "3", "4", "5", "6", "7", "8", "9">>

IsDigit(ch) == \E d \in 1..10 : Digits[d] = ch

IsLetter(ch) ==
  ch \in {"a", "b", "c", "d", "e", "f", "g", "h", "i", "j", "k", "l", "m",
          "n", "o", "p", "q", "r", "s", "t", "u", "v", "w", "x", "y", "z",
          "A", "B", "C", "D", "E", "F", "G", "H", "I", "J", "K", "L", "M",
          "N", "O", "P", "Q", "R", "S", "T", "U", "V", "W", "X", "Y", "Z"}

\* number.match(...): <<>> for null, else <<digits, letter suffix>>.
numberMatch(s) ==
  LET n == Len(s)
      hasSuffix == n >= 1 /\ IsLetter(s[n])
      digits == IF hasSuffix THEN SubSeq(s, 1, n - 1) ELSE s
      suffix == IF hasSuffix THEN <<s[n]>> ELSE <<>>
  IN IF Len(digits) >= 1 /\ \A i \in 1..Len(digits) : IsDigit(digits[i])
     THEN <<digits, suffix>>
     ELSE <<>>

(***************************************************************************)
(* Collection view (script.js:74-88): the comparator dereferences the      *)
(* match of both entries, so it throws on an entry whose number does not   *)
(* match; sort calls it as soon as the array has two entries.              *)
(***************************************************************************)
filterCollection(coll, filterRarity) ==
  IF filterRarity = "" THEN coll
  ELSE LET Keep(e) == e.rarity = filterRarity IN SelectSeq(coll, Keep)

renderCollectionThrows(coll, filterRarity) ==
  LET arr == filterCollection(coll, filterRarity)
  IN Len(arr) >= 2 /\ \E i \in 1..Len(arr) : numberMatch(arr[i].number) = <<>>

DigitValue(ch) == (CHOOSE d \in 1..10 : Digits[d] = ch) - 1

RECURSIVE parseInt(_)
parseInt(ds) ==
  IF Len(ds) = 0 THEN 0 ELSE 10 * parseInt(SubSeq(ds, 1, Len(ds) - 1)) + DigitValue(ds[Len(ds)])

\* Letters in code-unit order, which is how < compares the suffixes.
Letters == <<"A", "B", "C", "D", "E", "F", "G", "H", "I", "J", "K", "L", "M",
             "N", "O", "P", "Q", "R", "S", "T", "U", "V", "W", "X", "Y", "Z",
             "a", "b", "c", "d", "e", "f", "g", "h", "i", "j", "k", "l", "m",
             "n", "o", "p", "q", "r", "s", "t", "u", "v", "w", "x", "y", "z">>

\* Rank of ma[2] || '': the empty suffix is below every letter.
SuffixRank(sfx) == IF sfx = <<>> THEN 0 ELSE CHOOSE r \in 1..52 : Letters[r] = sfx[1]

compare_numOnly(a, b) ==
  parseInt(numberMatch(a.number)[1]) - parseInt(numberMatch(b.number)[1])

\* The comparator, on two entries whose numbers match.
compare(a, b) ==
  LET ma == numberMatch(a.number)
      mb == numberMatch(b.number)
      na == parseInt(ma[1])
      nb == parseInt(mb[1])
      la == SuffixRank(ma[2])
      lb == SuffixRank(mb[2])
  IN IF na # nb THEN na - nb
     ELSE IF la < lb THEN -1
     ELSE IF la > lb THEN 1
     ELSE 0

\* Array.prototype.sort is stable: an entry goes before the first entry
\* already placed that compares greater.
insertSorted(sorted, e) ==
  LET after == {i \in 1..Len(sorted) : compare(sorted[i], e) > 0}
      pos == IF after = {} THEN Len(sorted) + 1
             ELSE CHOOSE i \in after : \A h \in after : i <= h
  IN SubSeq(sorted, 1, pos - 1) \o <<e>> \o SubSeq(sorted, pos, Len(sorted))

RECURSIVE sortEntries(_, _)
sortEntries(arr, n) ==
  IF n = 0 THEN <<>> ELSE insertSorted(sortEntries(arr, n - 1), arr[n])

\* What collectionDiv holds after renderCollection: it is emptied first,
\* and stays empty when the sort throws.
renderCollection(coll, filterRarity) ==
  LET arr == filterCollection(coll, filterRarity)
  IN IF renderCollectionThrows(coll, filterRarity) THEN <<>>
     ELSE sortEntries(arr, Len(arr))

(***************************************************************************)
(* Progress bars (script.js:59-71): version 1 divides by the catalog       *)
(* totals unguarded and assigns the quotient to <progress>.value, whose    *)
(* setter throws a TypeError on NaN and Infinity; version 2 (script.js:    *)
(* 335-337) guards both divisions.                                         *)
(***************************************************************************)
regularRarities == {"Common", "Uncommon", "Rare", "Double Rare"}

HasNull(cs) == \E i \in 1..Len(cs) : cs[i] = Null

regularMax ==
  Cardinality({i \in 1..Len(cards) : cards[i] # Null /\ cards[i].rarity \in regularRarities})

masterMax == Len(cards)

regularCollected ==
  Cardinality({i \in 1..Len(collection) :
                 collection[i].count > 0 /\ collection[i].rarity \in regularRarities})

masterCollected == Cardinality({i \in 1..Len(collection) : collection[i].count > 0})

Num(n) == [kind |-> "number", value |-> n]

\* (collected / max) * 100 in floating point, rounded down when finite.
percent(collected, max) ==
  IF max = 0 THEN [kind |-> IF collected = 0 THEN "NaN" ELSE "Infinity", value |-> 0]
  ELSE Num((collected * 100) \div max)

regularProgress ==
  IF version = "v2" /\ ~(regularMax > 0) THEN Num(0) ELSE percent(regularCollected, regularMax)

masterProgress ==
  IF version = "v2" /\ ~(masterMax > 0) THEN Num(0) ELSE percent(masterCollected, masterMax)

NonFinite == {"NaN", "Infinity"}

\* cards.filter throws when cards is not an array, c.rarity throws on a
\* null element; assigning a non-finite number to <progress>.value throws.
updateStatsDisplayThrows ==
  \/ cardsType # "array"
  \/ HasNull(cards)
  \/ regularProgress.kind \in NonFinite
  \/ masterProgress.kind \in NonFinite

(***************************************************************************)
(* Stats and ledger accumulation (script.js:156-163, 556-566)              *)
(***************************************************************************)
FirstNull(ps) ==
  IF \E i \in 1..Len(ps) : ps[i] = Null
  THEN CHOOSE i \in 1..Len(ps) : ps[i] = Null /\ \A j \in 1..(i - 1) : ps[j] # Null
  ELSE Len(ps) + 1

bumpRarity_set(rar, c) == (c.rarity :> 1) @@ rar

bumpRarity(rar, c) ==
  (c.rarity :> ((IF c.rarity \in DOMAIN rar THEN rar[c.rarity] ELSE 0) + 1)) @@ rar

RECURSIVE countRarities(_, _, _)
countRarities(rar, ps, n) ==
  IF n = 0 THEN rar ELSE bumpRarity(countRarities(rar, ps, n - 1), ps[n])

HasKey(coll, key) == \E i \in 1..Len(coll) : coll[i].key = key

record_append(coll, c) ==
  Append(coll, [key |-> getCardKey(c), name |-> c.name, number |-> c.number,
                rarity |-> c.rarity, image |-> c.image, count |-> 1])

record(coll, c) ==
  LET key == getCardKey(c)
  IN IF HasKey(coll, key)
     THEN [i \in 1..Len(coll) |->
             IF coll[i].key = key THEN [coll[i] EXCEPT !.count = @ + 1] ELSE coll[i]]
     ELSE Append(coll, [key |-> key, name |-> c.name, number |-> c.number,
                        rarity |-> c.rarity, image |-> c.image, count |-> 1])

recordAll_first(coll, ps, n) == IF n = 0 THEN coll ELSE record(coll, ps[1])

RECURSIVE recordAll(_, _, _)
recordAll(coll, ps, n) ==
  IF n = 0 THEN coll ELSE record(recordAll(coll, ps, n - 1), ps[n])

\* unshift, then pop when longer than 20 (script.js:564-565)
RecentLimit == 20

\* {...c, timestamp: Date.now()}
Stamped(c, now) ==
  [name |-> c.name, number |-> c.number, rarity |-> c.rarity, image |-> c.image,
   timestamp |-> now]

pushRecent_noPop(rc, c, now) == <<Stamped(c, now)>> \o rc

pushRecent(rc, c, now) ==
  LET r == <<Stamped(c, now)>> \o rc
  IN IF Len(r) > RecentLimit THEN SubSeq(r, 1, Len(r) - 1) ELSE r

RECURSIVE pushAllRecent(_, _, _, _)
pushAllRecent(rc, ps, n, now) ==
  IF n = 0 THEN rc ELSE pushRecent(pushAllRecent(rc, ps, n - 1, now), ps[n], now)

(***************************************************************************)
(* Persistence (script.js:2-3, 48-49).  The JSON text of an object is the  *)
(* sequence of its <<property name, value>> pairs in property order; the   *)
(* rarities object, whose order nothing reads, is the set of its pairs.    *)
(* A ledger entry is stored under its key and does not hold it.            *)
(***************************************************************************)
stringifyStats(st) ==
  << <<"packsOpened", st.packsOpened>>,
     <<"totalCards", st.totalCards>>,
     <<"rarities", {<<r, st.rarities[r]>> : r \in DOMAIN st.rarities}>> >>

parseStats(t) ==
  [packsOpened |-> t[1][2],
   totalCards |-> t[2][2],
   rarities |-> [r \in {p[1] : p \in t[3][2]} |-> (CHOOSE p \in t[3][2] : p[1] = r)[2]]]

stringifyCollection(coll) ==
  [i \in 1..Len(coll) |->
     <<coll[i].key, [name |-> coll[i].name, number |-> coll[i].number,
                     rarity |-> coll[i].rarity, image |-> coll[i].image,
                     count |-> coll[i].count]>>]

parseCollection(t) ==
  [i \in 1..Len(t) |->
     [key |-> t[i][1], name |-> t[i][2].name, number |-> t[i][2].number,
      rarity |-> t[i][2].rarity, image |-> t[i][2].image, count |-> t[i][2].count]]

EmptyStats == [packsOpened |-> 0, totalCards |-> 0, rarities |-> <<>>]

\* JSON.parse(localStorage.getItem(k)) || default: getItem is null for an
\* absent key, JSON.parse(null) is null, and a parsed object is truthy.
hydrateStats(ls) == IF ls.packStats = <<>> THEN EmptyStats ELSE parseStats(ls.packStats[1])

hydrateCollection(ls) ==
  IF ls.collection = <<>> THEN <<>> ELSE parseCollection(ls.collection[1])

saveStats_skip(ls, st) == ls

saveStats(ls, st) == [ls EXCEPT !.packStats = <<stringifyStats(st)>>]

saveCollection(ls, coll) == [ls EXCEPT !.collection = <<stringifyCollection(coll)>>]

stringifyRecent(rc) ==
  [i \in 1..Len(rc) |->
     << <<"name", rc[i].name>>, <<"number", rc[i].number>>, <<"rarity", rc[i].rarity>>,
        <<"image", rc[i].image>>, <<"timestamp", rc[i].timestamp>> >>]

parseRecent(t) ==
  [i \in 1..Len(t) |->
     [name |-> t[i][1][2], number |-> t[i][2][2], rarity |-> t[i][3][2],
      image |-> t[i][4][2], timestamp |-> t[i][5][2]]]

hydrateRecent(ls) == IF ls.recentCards = <<>> THEN <<>> ELSE parseRecent(ls.recentCards[1])

saveRecent(ls, rc) == [ls EXCEPT !.recentCards = <<stringifyRecent(rc)>>]

(***************************************************************************)
(* Reveal (script.js:171-182): the cards after the first pulls.length - 3  *)
(* are revealed as hits; positions here count from 1.  The later version   *)
(* (script.js:575-582) reveals every card alike.                           *)
(***************************************************************************)
normalCardsCount_two(ps) == Len(ps) - 2

normalCardsCount(ps) == Len(ps) - 3

IsHitPosition(ps, i) == version = "v1" /\ i > normalCardsCount(ps)

(***************************************************************************)
(* openPack, from the stats update on (script.js:156-168, 556-572).        *)
(* Order: stats in memory, ledger in memory (and recent cards), persist    *)
(* recent cards, persist the ledger, render the collection, persist the    *)
(* stats, refresh the stats display.  An exception ends the handler there. *)
(* Date.now() is the number of the pack: a clock that ticks between packs. *)
(***************************************************************************)
OpenPackCommit ==
  /\ pc = "commit"
  /\ pc' = "idle"
  /\ LET n == FirstNull(pulls)
         stats1 == [stats EXCEPT !.packsOpened = @ + 1,
                                 !.totalCards = @ + Len(pulls),
                                 !.rarities = countRarities(@, pulls, n - 1)]
         coll1 == recordAll(collection, pulls, Len(pulls))
         rec1 == IF version = "v2"
                 THEN pushAllRecent(recentCards, pulls, Len(pulls), opens)
                 ELSE recentCards
         ls1 == IF version = "v2" THEN saveRecent(localStorage, rec1) ELSE localStorage
         ls2 == saveCollection(ls1, coll1)
     IN IF n <= Len(pulls)
        THEN /\ stats' = stats1
             /\ outcome' = "throw:stats"
             /\ UNCHANGED <<collection, recentCards, localStorage, collectionDiv>>
        ELSE /\ stats' = stats1
             /\ collectionDiv' = renderCollection(coll1, collectionFilter)
             /\ collection' = coll1
             /\ recentCards' = rec1
             /\ IF renderCollectionThrows(coll1, collectionFilter)
                THEN /\ localStorage' = ls2
                     /\ outcome' = "throw:renderCollection"
                ELSE /\ localStorage' = saveStats(ls2, stats1)
                     /\ outcome' = IF updateStatsDisplayThrows
                                   THEN "throw:updateStatsDisplay"
                                   ELSE "ok"
  /\ slot' = 1
  /\ pulls' = <<>>
  /\ pulledKeys' = {}
  /\ UNCHANGED <<catVars, collectionFilter, inflight, lastOp, harnessVars, libVars>>

(***************************************************************************)
(* Set inputs.  A set input is what loadSet is handed: JSON text, or a URL *)
(* together with what fetching it yields.                                  *)
(***************************************************************************)
SetJSON(root, dataType, data) ==
  [parses |-> TRUE, root |-> root, dataType |-> dataType, data |-> data]

Unparseable == [parses |-> FALSE, root |-> "object", dataType |-> "missing", data |-> <<>>]

TextInput(j) == [via |-> "text", net |-> "ok", json |-> j]

\* loadSet(url): what the URL serves (json) and how a plain fetch of it ends.
UrlInput(url, net, j) == [via |-> "url", url |-> url, net |-> net, json |-> j]

(***************************************************************************)
(* url-resolver.js: strings are sequences of one-character strings.        *)
(* window.location is https://host/ ; new URL(...).href is taken on URLs   *)
(* that are already in normal form, where it returns its argument.         *)
(***************************************************************************)
gameVars == <<catVars, appVars, pc, slot, pulls, pulledKeys, outcome, harnessVars>>

StartsWith(s, p) == Len(s) >= Len(p) /\ SubSeq(s, 1, Len(p)) = p

Includes(s, p) == \E i \in 1..(Len(s) - Len(p) + 1) : SubSeq(s, i, i + Len(p) - 1) = p

toLowerCase(s) ==
  [i \in 1..Len(s) |->
     IF \E k \in 1..26 : Letters[k] = s[i]
     THEN Letters[(CHOOSE k \in 1..26 : Letters[k] = s[i]) + 26]
     ELSE s[i]]

\* url.trim() followed by url.replace(/\s+/g, '')
removeWhitespace(s) == SelectSeq(s, LAMBDA ch : ch # " ")

RECURSIVE stripLeadingSlashes(_)
stripLeadingSlashes(s) ==
  IF s # <<>> /\ Head(s) = "/" THEN stripLeadingSlashes(Tail(s)) ELSE s

\* Index of the last "/" counted from 1, 0 when there is none.
lastIndexOfSlash(s) ==
  IF \E i \in 1..Len(s) : s[i] = "/"
  THEN CHOOSE i \in 1..Len(s) : s[i] = "/" /\ \A k \in (i + 1)..Len(s) : s[k] # "/"
  ELSE 0

PageOrigin == <<"h", "t", "t", "p", "s", ":", "/", "/", "h", "o", "s", "t">>

PagePathname == <<"/">>

getBaseUrl == PageOrigin \o SubSeq(PagePathname, 1, lastIndexOfSlash(PagePathname))

\* /^https?:\/\//i
matchesHttp(url) ==
  \/ StartsWith(toLowerCase(url), <<"h", "t", "t", "p", ":", "/", "/">>)
  \/ StartsWith(toLowerCase(url), <<"h", "t", "t", "p", "s", ":", "/", "/">>)

\* /^[a-z0-9.-]+\.[a-z]{2,}/i
matchesDomain(url) ==
  \E i \in 2..(Len(url) - 2) :
    /\ url[i] = "."
    /\ \A k \in 1..(i - 1) : IsLetter(url[k]) \/ IsDigit(url[k]) \/ url[k] \in {".", "-"}
    /\ IsLetter(url[i + 1]) /\ IsLetter(url[i + 2])

\* null, which the callers test with !sanitizedUrl as they would "".
NullUrl == <<>>

sanitizeUrl(raw) ==
  LET url == removeWhitespace(raw)
  IN IF url = <<>> THEN NullUrl
     ELSE IF matchesHttp(url) THEN url
     ELSE IF StartsWith(url, <<"/", "/">>) THEN <<"h", "t", "t", "p", "s", ":">> \o url
     ELSE IF matchesDomain(url) /\ ~Includes(url, <<":", "/", "/">>) THEN <<"h", "t", "t", "p", "s", ":", "/", "/">> \o url
     ELSE IF StartsWith(url, <<"/">>) THEN PageOrigin \o url
     ELSE IF StartsWith(url, <<".", "/">>) THEN getBaseUrl \o SubSeq(url, 3, Len(url))
     ELSE getBaseUrl \o url

dangerousPatterns ==
  { <<"j", "a", "v", "a", "s", "c", "r", "i", "p", "t", ":">>,
    <<"d", "a", "t", "a", ":">>,
    <<"v", "b", "s", "c", "r", "i", "p", "t", ":">>,
    <<"f", "i", "l", "e", ":">> }

isValidUrl(url) ==
  /\ url # NullUrl
  /\ matchesHttp(url)
  /\ \A pattern \in dangerousPatterns : ~Includes(toLowerCase(url), pattern)

\* script.js:402
isLocalPath(url) ==
  \/ StartsWith(url, <<"s", "e", "t", "s", "/">>)
  \/ StartsWith(url, <<".", "/">>)
  \/ /\ ~StartsWith(url, <<"h", "t", "t", "p", ":", "/", "/">>)
     /\ ~StartsWith(url, <<"h", "t", "t", "p", "s", ":", "/", "/">>)
     /\ ~StartsWith(url, <<"/", "/">>)

RECURSIVE trim(_)
trim(s) ==
  IF s # <<>> /\ Head(s) = " " THEN trim(Tail(s))
  ELSE IF s # <<>> /\ s[Len(s)] = " " THEN trim(SubSeq(s, 1, Len(s) - 1))
  ELSE s

\* resolveImageUrl(imagePath, undefined): no source URL is handed down by
\* loadSet, so no meta or set name is found and the path is resolved
\* against the directory of the page.  <<>> is its null.
resolveImageUrl(rawPath) ==
  LET imagePath == trim(rawPath)
      slashed == [i \in 1..Len(imagePath) |->
                    IF imagePath[i] = "\\" THEN "/" ELSE imagePath[i]]
      stripped == stripLeadingSlashes(slashed)
      normalizedPath == IF StartsWith(stripped, <<"i", "m", "g", "/">>)
                        THEN SubSeq(stripped, 5, Len(stripped))
                        ELSE stripped
      href == PageOrigin \o PagePathname
      basePath == SubSeq(PagePathname, 1, lastIndexOfSlash(PagePathname) - 1)
  IN IF rawPath = <<>> THEN <<>>
     ELSE IF StartsWith(imagePath, <<"h", "t", "t", "p", ":", "/", "/">>) \/ StartsWith(imagePath, <<"h", "t", "t", "p", "s", ":", "/", "/">>)
     THEN imagePath
     ELSE IF StartsWith(imagePath, <<"/", "/">>) THEN <<"h", "t", "t", "p", "s", ":">> \o imagePath
     ELSE IF Includes(imagePath, <<":", "/", "/">>)
             \/ (StartsWith(imagePath, <<"c", "d", "n", ".">>) /\ Includes(imagePath, <<"/">>))
     THEN IF ~StartsWith(imagePath, <<"h", "t", "t", "p">>)
          THEN <<"h", "t", "t", "p", "s", ":", "/", "/">> \o stripLeadingSlashes(imagePath)
          ELSE imagePath
     ELSE PageOrigin \o basePath \o <<"/">> \o normalizedPath

\* resolveImagesInJson on a parsed set: every string under an image key is
\* replaced by resolver(value) || value.
resolveImagesInJson(j) ==
  IF j.root # "object" THEN j
  ELSE [j EXCEPT !.data =
          [i \in 1..Len(j.data) |->
             IF j.data[i] = Null THEN Null
             ELSE [j.data[i] EXCEPT !.image =
                     IF resolveImageUrl(@) = <<>> THEN @ ELSE resolveImageUrl(@)]]]

(***************************************************************************)
(* url-resolver.js: fetchWithCors                                          *)
(***************************************************************************)
\* null in corsProxies, falsy in "if (proxy)": the direct fetch.
NoProxy == <<>>

corsProxies ==
  <<<<"h", "t", "t", "p", "s", ":", "/", "/", "c", "o", "r", "s", "p", "r", "o", "x", "y", ".", "i", "o", "/", "?">>,
    <<"h", "t", "t", "p", "s", ":", "/", "/", "a", "p", "i", ".", "a", "l", "l", "o", "r", "i", "g", "i", "n", "s", ".", "w", "i", "n", "/", "r", "a", "w", "?", "u", "r", "l", "=">>,
    <<"h", "t", "t", "p", "s", ":", "/", "/", "c", "o", "r", "s", "-", "a", "n", "y", "w", "h", "e", "r", "e", ".", "h", "e", "r", "o", "k", "u", "a", "p", "p", ".", "c", "o", "m", "/">>,
    NoProxy>>

\* encodeURIComponent on printable ASCII without the grave accent: letters,
\* digits and - _ . ! ~ * ' ( ) are kept, every other character becomes its
\* percent escape.
escape(ch) ==
  CASE ch = " " -> <<"%", "2", "0">>
    [] ch = "\"" -> <<"%", "2", "2">>
    [] ch = "#" -> <<"%", "2", "3">>
    [] ch = "$" -> <<"%", "2", "4">>
    [] ch = "%" -> <<"%", "2", "5">>
    [] ch = "&" -> <<"%", "2", "6">>
    [] ch = "+" -> <<"%", "2", "B">>
    [] ch = "," -> <<"%", "2", "C">>
    [] ch = "/" -> <<"%", "2", "F">>
    [] ch = ":" -> <<"%", "3", "A">>
    [] ch = ";" -> <<"%", "3", "B">>
    [] ch = "<" -> <<"%", "3", "C">>
    [] ch = "=" -> <<"%", "3", "D">>
    [] ch = ">" -> <<"%", "3", "E">>
    [] ch = "?" -> <<"%", "3", "F">>
    [] ch = "@" -> <<"%", "4", "0">>
    [] ch = "[" -> <<"%", "5", "B">>
    [] ch = "\\" -> <<"%", "5", "C">>
    [] ch = "]" -> <<"%", "5", "D">>
    [] ch = "^" -> <<"%", "5", "E">>
    [] ch = "{" -> <<"%", "7", "B">>
    [] ch = "|" -> <<"%", "7", "C">>
    [] ch = "}" -> <<"%", "7", "D">>
    [] OTHER -> <<ch>>

RECURSIVE encodeURIComponent(_)
encodeURIComponent(str) ==
  IF str = <<>> THEN <<>> ELSE escape(Head(str)) \o encodeURIComponent(Tail(str))

\* The request one strategy issues: fetchWithProxy asks for
\* proxy + encodeURIComponent(url), fetchDirect for the URL itself.
Request(proxy, url) ==
  IF proxy # NoProxy
  THEN [fn |-> "fetchWithProxy", url |-> proxy \o encodeURIComponent(url)]
  ELSE [fn |-> "fetchDirect", url |-> url]

Response(status, statusText) ==
  [kind |-> "response", ok |-> status = "200", status |-> status, statusText |-> statusText]

Error(name, message) == [kind |-> "error", name |-> name, message |-> message]

\* How one request can settle: a response, a network error, or the abort
\* raised by the 30 s timeout of fetchWithProxy / fetchDirect.
Settlements ==
  {Response("200", "OK"), Response("404", "Not Found"), Response("500", ""),
   Error("TypeError", <<"Failed to fetch">>),
   Error("AbortError", <<"The operation was aborted">>)}

Return(response) == [kind |-> "return", response |-> response]

Throw(message) == [kind |-> "throw", message |-> message]

\* No fetchWithCors call has been made.
NoFetchCall ==
  [pc |-> "idle", sanitizedUrl |-> <<>>, proxies |-> <<>>, index |-> 0, lastError |-> Null,
   requests |-> <<>>, result |-> Null]

\* fetchWithCors up to its first await.
fetchWithCors(url, proxies) ==
  LET sanitizedUrl == sanitizeUrl(url)
  IN IF ~isValidUrl(sanitizedUrl)
     THEN [NoFetchCall EXCEPT !.pc = "done", !.proxies = proxies,
                              !.result = Throw(<<"Invalid or unsafe URL">>)]
     ELSE IF proxies = <<>>
     THEN [NoFetchCall EXCEPT !.pc = "done", !.sanitizedUrl = sanitizedUrl,
                              !.result = Throw(<<"Failed to fetch: ", "Unknown error">>)]
     ELSE [pc |-> "awaiting", sanitizedUrl |-> sanitizedUrl, proxies |-> proxies,
           index |-> 1, lastError |-> Null,
           requests |-> <<Request(proxies[1], sanitizedUrl)>>, result |-> Null]

\* A direct call of URLResolver.fetchWithCors.
FetchWithCors(url, proxies) ==
  /\ fetchCall.pc = "idle"
  /\ fetchCall' = fetchWithCors(url, proxies)
  /\ UNCHANGED <<gameVars, lastOp, lightbox, timers>>

\* The awaited request settles: the rest of the loop body, and the next
\* iteration up to its await.
FetchAttemptSettles(s) ==
  /\ fetchCall.pc = "awaiting"
  /\ LET error == IF s.kind = "response"
                  THEN Error("Error", <<"HTTP ", s.status, ": ", s.statusText>>)
                  ELSE s
         next == fetchCall.index + 1
     IN fetchCall' =
          IF s.kind = "response" /\ s.ok
          THEN [fetchCall EXCEPT !.pc = "done", !.result = Return(s)]
          ELSE IF error.name = "AbortError"
          THEN [fetchCall EXCEPT !.pc = "done", !.lastError = error,
                  !.result = Throw(<<"Request timeout">>)]
          ELSE IF next <= Len(fetchCall.proxies)
          THEN [fetchCall EXCEPT !.lastError = error, !.index = next,
                  !.requests = Append(@, Request(fetchCall.proxies[next],
                                                 fetchCall.sanitizedUrl))]
          ELSE [fetchCall EXCEPT !.pc = "done", !.lastError = error,
                  !.result = Throw(<<"Failed to fetch: ">> \o error.message)]
  /\ UNCHANGED <<gameVars, lastOp, lightbox, timers>>

(***************************************************************************)
(* validateSetJSON (script.js:33-45): <<>> for null, else the message;     *)
(* <<"TypeError">> when it throws reading c.name of a null element.        *)
(***************************************************************************)
MissingField(c) ==
  IF c = Null THEN "TypeError"
  ELSE IF c.name = <<>> THEN "name"
  ELSE IF c.number = <<>> THEN "number"
  ELSE IF c.rarity = "" THEN "rarity"
  ELSE IF c.image = <<>> THEN "image"
  ELSE ""

validateSetJSON(j) ==
  IF j.root # "object" THEN <<"Root is not an object">>
  ELSE IF j.dataType # "array" THEN <<"Missing or invalid data array">>
  ELSE IF \E i \in 1..Len(j.data) : MissingField(j.data[i]) # ""
  THEN LET i == CHOOSE i \in 1..Len(j.data) :
                  /\ MissingField(j.data[i]) # ""
                  /\ \A h \in 1..(i - 1) : MissingField(j.data[h]) = ""
       IN IF j.data[i] = Null THEN <<"TypeError">>
          ELSE <<"Card", i - 1, "missing", MissingField(j.data[i])>>
  ELSE <<>>

(***************************************************************************)
(* Version 1 loader (script.js:107-134, 228-248)                           *)
(***************************************************************************)
\* applySetJSON on a parsed value; JSON.parse of unparseable text throws
\* before it is called.
applySetJSON(j, catchAlert) ==
  IF ~j.parses \/ validateSetJSON(j) = <<"TypeError">>
  THEN /\ outcome' = catchAlert
       /\ UNCHANGED <<cards, cardsType, availableRarities>>
  ELSE IF validateSetJSON(j) # <<>>
  THEN /\ outcome' = "alert:Invalid set"
       /\ UNCHANGED <<cards, cardsType, availableRarities>>
  ELSE /\ cards' = j.data
       /\ cardsType' = "array"
       /\ availableRarities' = buildAvailableRarities(j.data)
       /\ outcome' = "loaded"

\* cards = j.data; buildAvailableRarities(); inside try / then, version 2
\* (script.js:383-400, 407-423).
assignSetJSON(j, catchAlert) ==
  IF ~j.parses \/ j.root # "object"
  THEN /\ outcome' = catchAlert
       /\ UNCHANGED <<cards, cardsType, availableRarities>>
  ELSE IF j.dataType = "array"
  THEN /\ cards' = j.data
       /\ cardsType' = "array"
       /\ availableRarities' = buildAvailableRarities(j.data)
       /\ outcome' = IF HasNull(j.data) THEN catchAlert ELSE "loaded"
  ELSE /\ cards' = <<>>
       /\ cardsType' = IF j.dataType = "missing" THEN "undefined" ELSE "number"
       /\ availableRarities' = <<>>
       /\ outcome' = catchAlert

LoadSetText(in) ==
  /\ pc = "idle"
  /\ in.via = "text"
  /\ IF version = "v1"
     THEN applySetJSON(in.json, "alert:Invalid JSON")
     ELSE assignSetJSON(in.json, "alert:Invalid JSON")
  /\ lastOp' = <<"loadSet", in>>
  /\ UNCHANGED <<version, appVars, pc, slot, pulls, pulledKeys, harnessVars, libVars>>

\* The later version hands an external URL to URLResolver.importJson, which
\* fetches it with fetchWithCors (script.js:402-406); everything else goes
\* to fetch.
UsesImportJson(url) == version = "v2" /\ ~isLocalPath(url)

LoadSetUrl(in) ==
  /\ pc = "idle"
  /\ in.via = "url"
  /\ Len(inflight) < MaxInflight
  /\ inflight' = Append(inflight, in)
  /\ IF UsesImportJson(in.url)
     THEN /\ fetchCall.pc = "idle"
          /\ fetchCall' = fetchWithCors(in.url, corsProxies)
     ELSE UNCHANGED fetchCall
  /\ outcome' = "fetching"
  /\ lastOp' = <<"loadSet", in>>
  /\ UNCHANGED <<catVars, stats, collection, recentCards, localStorage,
                 collectionFilter, collectionDiv, pc, slot, pulls, pulledKeys, harnessVars,
                 lightbox, timers>>

RemoveAt(s, i) == SubSeq(s, 1, i - 1) \o SubSeq(s, i + 1, Len(s))

FetchSettled(i) ==
  /\ pc = "idle"
  /\ i \in 1..Len(inflight)
  /\ ~UsesImportJson(inflight[i].url)
  /\ inflight' = RemoveAt(inflight, i)
  /\ LET in == inflight[i]
     IN /\ IF in.net # "ok"
           THEN /\ outcome' = "alert:Failed to load set"
                /\ UNCHANGED <<cards, cardsType, availableRarities>>
           ELSE IF version = "v1"
           THEN applySetJSON(in.json, "alert:Failed to load set")
           ELSE assignSetJSON(in.json, "alert:Failed to load set")
        /\ lastOp' = <<"fetchSettled", in>>
  /\ UNCHANGED <<version, stats, collection, recentCards, localStorage,
                 collectionFilter, collectionDiv, pc, slot, pulls, pulledKeys, harnessVars, libVars>>

\* The promise of URLResolver.importJson settles (script.js:406-423): the
\* fetchWithCors call has returned or thrown; importData parses the text
\* and resolves the images before loadSet assigns the catalog.
ImportSettled ==
  /\ pc = "idle"
  /\ fetchCall.pc = "done"
  /\ \E i \in 1..Len(inflight) :
       /\ UsesImportJson(inflight[i].url)
       /\ inflight' = RemoveAt(inflight, i)
       /\ IF fetchCall.result.kind = "throw"
          THEN /\ outcome' = "alert:Failed to load set"
               /\ UNCHANGED <<cards, cardsType, availableRarities>>
          ELSE assignSetJSON(resolveImagesInJson(inflight[i].json), "alert:Failed to load set")
       /\ lastOp' = <<"importSettled", inflight[i]>>
  /\ fetchCall' = NoFetchCall
  /\ UNCHANGED <<version, stats, collection, recentCards, localStorage,
                 collectionFilter, collectionDiv, pc, slot, pulls, pulledKeys, harnessVars,
                 lightbox, timers>>

(***************************************************************************)
(* Reset (script.js:263-271, 639-647) and the collection filter            *)
(* (script.js:252-254)                                                     *)
(***************************************************************************)
Reset_keepStorage(confirmed) ==
  /\ pc = "idle"
  /\ lastOp' = <<"reset", confirmed>>
  /\ stats' = IF confirmed THEN EmptyStats ELSE stats
  /\ collection' = IF confirmed THEN <<>> ELSE collection
  /\ outcome' = IF confirmed THEN "ok" ELSE "cancelled"
  /\ UNCHANGED <<catVars, localStorage, recentCards, collectionFilter, collectionDiv,
                 inflight, pc, slot, pulls, pulledKeys, harnessVars, libVars>>

Reset(confirmed) ==
  /\ pc = "idle"
  /\ lastOp' = <<"reset", confirmed>>
  /\ IF confirmed
     THEN /\ localStorage' = [localStorage EXCEPT !.packStats = <<>>, !.collection = <<>>]
          /\ stats' = [packsOpened |-> 0, totalCards |-> 0, rarities |-> <<>>]
          /\ collection' = <<>>
          /\ outcome' = IF updateStatsDisplayThrows THEN "throw:updateStatsDisplay" ELSE "ok"
          /\ collectionDiv' = IF updateStatsDisplayThrows THEN collectionDiv ELSE <<>>
     ELSE /\ outcome' = "cancelled"
          /\ UNCHANGED <<localStorage, stats, collection, collectionDiv>>
  /\ UNCHANGED <<catVars, recentCards, collectionFilter, inflight, pc, slot,
                 pulls, pulledKeys, harnessVars, libVars>>

FilterChange(f) ==
  /\ pc = "idle"
  /\ collectionFilter # f
  /\ collectionFilter' = f
  /\ outcome' = IF renderCollectionThrows(collection, f) THEN "throw:renderCollection" ELSE "ok"
  /\ collectionDiv' = renderCollection(collection, f)
  /\ lastOp' = <<"filterChange", f>>
  /\ UNCHANGED <<catVars, stats, collection, recentCards, localStorage, inflight,
                 pc, slot, pulls, pulledKeys, harnessVars, libVars>>

(***************************************************************************)
(* Catalogs the generators are exercised on                                *)
(***************************************************************************)
cC1 == Card(<<"c", "1">>, <<"1">>, "Common", <<"i">>)
cC2 == Card(<<"c", "2">>, <<"2">>, "Common", <<"i">>)
cC3 == Card(<<"c", "3">>, <<"3">>, "Common", <<"i">>)
cC4 == Card(<<"c", "4">>, <<"4">>, "Common", <<"i">>)
cC1alt == Card(<<"c", "1">>, <<"1">>, "Common", "j")
cU1 == Card(<<"u", "1">>, <<"5">>, "Uncommon", <<"i">>)
cU2 == Card(<<"u", "2">>, <<"6">>, "Uncommon", <<"i">>)
cU3 == Card(<<"u", "3">>, <<"7">>, "Uncommon", <<"i">>)
cR1 == Card(<<"r", "1">>, <<"8">>, "Rare", <<"i">>)
cDR == Card(<<"d", "r">>, <<"9">>, "Double Rare", <<"i">>)
cIR == Card(<<"i", "r">>, <<"1", "0">>, "Illustration Rare", <<"i">>)
cUR == Card(<<"u", "r">>, <<"1", "1">>, "Ultra Rare", <<"i">>)
cSIR == Card(<<"s", "r">>, <<"1", "2">>, "Special Illustration Rare", <<"i">>)
cHR == Card(<<"h", "r">>, <<"1", "3">>, "Hyper Rare", <<"i">>)

\* A card of a set whose rarity is the string "null"; validateSetJSON asks
\* only for a non-empty rarity.
cNR == Card(<<"n", "r">>, <<"1", "4">>, "null", <<"i">>)

Full8 == <<cC1, cU1, cR1, cDR, cIR, cUR, cSIR, cHR>>

Big13 == <<cC1, cC2, cC3, cC4, cU1, cU2, cU3, cR1, cDR, cIR, cUR, cSIR, cHR>>

Big14 == <<cC1, cC1alt, cC2, cC3, cC4, cU1, cU2, cU3, cR1, cDR, cIR, cUR, cSIR, cHR>>

GenCatalogs ==
  { Full8,
    <<cC1, cC2, cU1, cR1, cDR, cIR, cUR, cSIR, cHR>>,
    <<cC1, cU1, cR1, cIR>>,
    <<cU1, cR1>>,
    <<cC1, cC2>>,
    <<cDR, cUR>>,
    <<cNR, cC1>> }

Need12 == <<cC1, cC2, cC3, cU1, cU2, cU3, cR1, cDR, cIR, cUR, cSIR, cHR>>

GenCatalogsUnique == {Big13, Big14, Need12}

NonDegenerate(cs) == \A r \in Rarities : \E i \in 1..Len(cs) : cs[i].rarity = r

Keys(cs) == {getCardKey(cs[i]) : i \in 1..Len(cs)}

\* MetaLightbox constructor with the default configuration: init() has
\* attached the keydown and touch listeners.
NewLightbox ==
  [isOpen |-> FALSE, currentIndex |-> -1, cards |-> <<>>, currentCard |-> Null,
   closeOnEscape |-> TRUE, listeners |-> TRUE]

InitLib ==
  /\ fetchCall = NoFetchCall
  /\ lightbox = NewLightbox
  /\ timers = 0

InitRest ==
  /\ InitLib
  /\ stats = [packsOpened |-> 0, totalCards |-> 0, rarities |-> <<>>]
  /\ collection = <<>>
  /\ recentCards = <<>>
  /\ localStorage = [packStats |-> <<>>, collection |-> <<>>, recentCards |-> <<>>]
  /\ collectionFilter = ""
  /\ collectionDiv = <<>>
  /\ inflight = <<>>
  /\ pc = "idle"
  /\ slot = 1
  /\ pulls = <<>>
  /\ pulledKeys = {}
  /\ outcome = "none"
  /\ lastOp = <<"init">>
  /\ opens = 0
  /\ table = <<>>

\* The state after a successful load of a catalog, before the first pack.
InitGen ==
  /\ \/ version = "v1" /\ cards \in GenCatalogs
     \/ version = "v2" /\ cards \in GenCatalogs \cup GenCatalogsUnique
  /\ availableRarities = buildAvailableRarities(cards)
  /\ cardsType = "array"
  /\ InitRest

\* Set inputs of the application: two well-formed sets (one holding a
\* promo-style number that the collection sort cannot parse) and the
\* malformed ones.
cT1 == Card(<<"t", "1">>, <<"T", "G", "0", "1">>, "Rare", <<"i">>)
cT2 == Card(<<"t", "2">>, <<"T", "G", "0", "2">>, "Uncommon", <<"i">>)
cNoName == Card(<<>>, <<"3">>, "Common", <<"i">>)

SetA == SetJSON("object", "array", <<cC1, cU1>>)
SetB == SetJSON("object", "array", <<cC1, cT2>>)
SetEmpty == SetJSON("object", "array", <<>>)
SetNoData == SetJSON("object", "missing", <<>>)
SetNumData == SetJSON("object", "number", <<>>)
SetBadCard == SetJSON("object", "array", <<cU1, cNoName>>)
SetNullRoot == SetJSON("null", "missing", <<>>)
SetNullCard == SetJSON("object", "array", <<cC1, Null, cU1>>)

\* 'sets/a.json', a path of the page's own set list.
SetPath == <<"s", "e", "t", "s", "/", "a", ".", "j", "s", "o", "n">>

SetInputs ==
  {TextInput(j) : j \in {SetA, SetB, SetEmpty, SetNoData, SetNumData, SetBadCard, SetNullCard,
                           Unparseable}}
  \cup {UrlInput(SetPath, "ok", j) : j \in {SetA, SetNullRoot}}
  \cup {UrlInput(SetPath, "fail", Unparseable)}

Filters == {"", "Uncommon"}

Init ==
  /\ version \in {"v1", "v2"}
  /\ cards = <<>>
  /\ cardsType = "array"
  /\ availableRarities = <<>>
  /\ InitRest

Next ==
  \/ \E in \in SetInputs : LoadSetText(in) \/ LoadSetUrl(in)
  \/ \E i \in 1..MaxInflight : FetchSettled(i)
  \/ OpenPackNotLoaded
  \/ OpenPackThrows
  \/ OpenPackStart
  \/ PullFixed
  \/ PullWeighted
  \/ PullUnique
  \/ PullWeightedUnique
  \/ OpenPackCommit
  \/ \E b \in BOOLEAN : Reset(b)
  \/ \E f \in Filters : FilterChange(f)

Spec == Init /\ [][Next]_vars

NextGen == OpenPackStart \/ PullFixed \/ PullWeighted \/ PullUnique \/ PullWeightedUnique

SpecGen == InitGen /\ [][NextGen]_vars

(***************************************************************************)
(* Roll harness: the weighted pull of either version at a weighted slot,   *)
(* on the slot's table, a catalog and (version 2) a set of identities      *)
(* already drawn.                                                          *)
(***************************************************************************)
RollCatalogs ==
  { <<cC1, cU1, cR1, cIR>>,
    <<cC1, cU1, cR1, cIR, cSIR, cHR>>,
    <<cR1, cDR, cUR>>,
    <<cC1, cR1, cDR>>,
    <<cDR, cUR>>,
    <<cC1, cC2>>,
    <<cNR, cC1>> }

InitRoll ==
  /\ version \in {"v1", "v2"}
  /\ cards \in RollCatalogs
  /\ cardsType = "array"
  /\ availableRarities = buildAvailableRarities(cards)
  /\ \E i \in 8..10 : slot = i /\ table = SlotTable(i)
  /\ pulledKeys \in (IF version = "v1" THEN {{}} ELSE SUBSET Keys(cards))
  /\ stats = [packsOpened |-> 0, totalCards |-> 0, rarities |-> <<>>]
  /\ collection = <<>>
  /\ recentCards = <<>>
  /\ localStorage = [packStats |-> <<>>, collection |-> <<>>, recentCards |-> <<>>]
  /\ collectionFilter = ""
  /\ collectionDiv = <<>>
  /\ inflight = <<>>
  /\ pc = "pulling"
  /\ pulls = <<>>
  /\ outcome = "none"
  /\ lastOp = <<"init">>
  /\ opens = 0
  /\ InitLib

RollPlain ==
  /\ version = "v1"
  /\ \E roll \in RollSamples(filterTable(table)) :
       \E k1 \in RandIdx(getByRarity(weightedRoll(table, roll))), k2 \in RandIdx(cards) :
         /\ pulls' = <<pullWeighted(table, roll, k1, k2)>>
         /\ lastOp' = <<"pullWeighted", roll, k1, k2>>
  /\ UNCHANGED <<catVars, appVars, pc, slot, pulledKeys, outcome, harnessVars, libVars>>

RollUnique ==
  /\ version = "v2"
  /\ \E roll \in RollSamples(filteredTable(table)) :
       \E k1 \in RandIdx(UniqueAvailable(table, roll)), k2 \in RandIdx(filterUnpulled(cards)) :
         /\ pulls' = <<pullWeightedUnique(table, roll, k1, k2)>>
         /\ lastOp' = <<"pullWeightedUnique", roll, k1, k2>>
  /\ UNCHANGED <<catVars, appVars, pc, slot, pulledKeys, outcome, harnessVars, libVars>>

NextRoll == RollPlain \/ RollUnique

SpecRoll == InitRoll /\ [][NextRoll]_vars

(***************************************************************************)
(* View harness: the collection view applied to ledgers of up to three     *)
(* entries whose numbers share integers, differ in suffix and letter case, *)
(* carry a leading zero, or do not match at all.                           *)
(***************************************************************************)
vN1 == Card(<<"n", "1">>, <<"1">>, "Common", <<"i">>)
vN2 == Card(<<"n", "2">>, <<"2">>, "Rare", <<"i">>)
vN10 == Card(<<"n", "3">>, <<"1", "0">>, "Common", <<"i">>)
vN1a == Card(<<"n", "4">>, <<"1", "a">>, "Common", <<"i">>)
vN1b == Card(<<"n", "5">>, <<"1", "b">>, "Rare", <<"i">>)
vN1B == Card(<<"n", "6">>, <<"1", "B">>, "Common", <<"i">>)
vN01 == Card(<<"n", "7">>, <<"0", "1">>, "Common", <<"i">>)

ViewCards == {vN1, vN2, vN10, vN1a, vN1b, vN1B, vN01, cT1}

MaxLedger == 3

ViewDraws ==
  {ps \in UNION {[1..n -> ViewCards] : n \in 0..MaxLedger} :
     \A i, j \in 1..Len(ps) : i # j => ps[i] # ps[j]}

\* The page after startup on a stored ledger: stats and collection are read
\* from storage, then updateStatsDisplay(); renderCollection() run
\* (script.js:277-278, 718-719).  In the earlier version updateStatsDisplay
\* throws on the empty catalog before the view is rendered.
InitView ==
  /\ version \in {"v1", "v2"}
  /\ cards = <<>>
  /\ cardsType = "array"
  /\ availableRarities = <<>>
  /\ \E ps \in ViewDraws :
       /\ collection = recordAll(<<>>, ps, Len(ps))
       /\ stats = [packsOpened |-> 1, totalCards |-> Len(ps),
                   rarities |-> countRarities(<<>>, ps, Len(ps))]
  /\ localStorage = saveStats(saveCollection(
                       [packStats |-> <<>>, collection |-> <<>>, recentCards |-> <<>>],
                       collection), stats)
  /\ recentCards = <<>>
  /\ collectionFilter = ""
  /\ collectionDiv = IF updateStatsDisplayThrows THEN <<>> ELSE renderCollection(collection, "")
  /\ inflight = <<>>
  /\ pc = "idle"
  /\ slot = 1
  /\ pulls = <<>>
  /\ pulledKeys = {}
  /\ outcome = "none"
  /\ lastOp = <<"init">>
  /\ opens = 0
  /\ table = <<>>
  /\ InitLib

ViewFilters == {"", "Common", "Rare"}

NextView == \E f \in ViewFilters : FilterChange(f)

SpecView == InitView /\ [][NextView]_vars

(***************************************************************************)
(* Properties                                                              *)
(***************************************************************************)
Range(s) == {s[i] : i \in 1..Len(s)}

PackDone == pc = "commit"

\* C1: in the plain generator, a pack drawn from a catalog that has at least
\* one card of every rarity a slot names holds exactly K = 10 cards.
C1_PlainPackSize ==
  (version = "v1" /\ PackDone /\ NonDegenerate(cards))
    => (Len(pulls) = K /\ \A i \in 1..Len(pulls) : pulls[i] \in Range(cards))

C1_Witness ==
  version = "v1" /\ PackDone /\ NonDegenerate(cards) /\ Len(cards) = 9 /\ Len(pulls) = K

\* C2 as claimed: in the uniqueness generator, a pack drawn from a
\* non-degenerate catalog holds exactly K = 10 cards.
C2_UniquePackSizeClaimed ==
  (version = "v2" /\ PackDone /\ NonDegenerate(cards)) => Len(pulls) = K

\* C2 amended: in the uniqueness generator, a pack drawn from a
\* non-degenerate catalog with at least K distinct identities holds exactly
\* K = 10 cards.
C2_UniquePackSize ==
  (version = "v2" /\ PackDone /\ NonDegenerate(cards) /\ Cardinality(Keys(cards)) >= K)
    => (Len(pulls) = K /\ \A i \in 1..Len(pulls) : pulls[i] \in Range(cards))

C2_Witness ==
  /\ version = "v2" /\ PackDone /\ NonDegenerate(cards)
  /\ Cardinality(Keys(cards)) >= K /\ Len(pulls) = K
  /\ cards = Need12 /\ pulls[4].rarity # "Common"

\* C3: in the uniqueness generator, with at least K distinct identities in
\* the catalog, no two cards of a pack share an identity key, also when the
\* catalog lists an identity twice.
C3_UniqueIdentities ==
  (version = "v2" /\ pc \in {"pulling", "commit"} /\ Cardinality(Keys(cards)) >= K)
    => \A i, j \in 1..Len(pulls) : i # j => getCardKey(pulls[i]) # getCardKey(pulls[j])

C3_Witness ==
  /\ version = "v2" /\ PackDone /\ Len(pulls) = K
  /\ Cardinality(Keys(cards)) >= K /\ Cardinality(Keys(cards)) < Len(cards)
  /\ \E i \in 1..Len(pulls) : pulls[i] = cC1alt

\* C5: in the plain generator with a non-empty catalog, a fixed-rarity slot
\* whose rarity pool is empty yields a card of the catalog (never null), and
\* every card of the catalog is a possible result.
C5_FixedSlotFallback ==
  (version = "v1" /\ pc \in {"pulling", "commit"} /\ Len(cards) > 0)
    => /\ \A i \in 1..Len(pulls) :
            (IsFixedSlot(i) /\ getByRarity(SlotRarity(i)) = <<>>)
              => pulls[i] \in Range(cards)
       /\ (pc = "pulling" /\ IsFixedSlot(slot) /\ getByRarity(SlotRarity(slot)) = <<>>)
            => \A c \in Range(cards) : \E k2 \in RandIdx(cards) :
                 orElse(randomFrom(getByRarity(SlotRarity(slot)), 0), randomFrom(cards, k2)) = c

C5_Witness ==
  /\ version = "v1" /\ pc = "pulling" /\ Len(cards) > 0
  /\ getByRarity("Common") = <<>>
  /\ Len(pulls) = 4 /\ pulls[1] # pulls[2]

(***************************************************************************)
(* Weighted selection                                                      *)
(***************************************************************************)
Total(f) == SumWeights(f, Len(f))

\* The entries of a table whose pool is not empty, as the version in force
\* counts it (version 2: not empty after removing the identities drawn).
Eligible(tbl) == IF version = "v1" THEN filterTable(tbl) ELSE filteredTable(tbl)

Selected(tbl, roll) ==
  IF version = "v1" THEN weightedRoll(tbl, roll) ELSE selectedRarity(filteredTable(tbl), roll)

PoolOf(r) == IF version = "v1" THEN getByRarity(r) ELSE filterUnpulled(getByRarity(r))

FirstExceeding(f, roll) ==
  CHOOSE j \in 1..Len(f) :
    SumWeights(f, j) > roll /\ \A h \in 1..(j - 1) : SumWeights(f, h) <= roll

RolledOps == {"pullWeighted", "pullWeightedUnique"}

\* C4: with the entries of empty pools removed, a roll in [0, total) selects
\* the first entry, in table order, whose cumulative weight exceeds it; so
\* no rarity with an empty pool is selected, every remaining entry is
\* selected by a range of rolls as wide as its weight (15 of 995 tenths for
\* Illustration Rare in the slot-8 scenario), and the card drawn has the
\* selected rarity.
C4_WeightedSelection ==
  LET f == Eligible(table)
  IN Total(f) > 0 =>
       /\ \A roll \in 0..(Total(f) - 1) :
            /\ Selected(table, roll) = f[FirstExceeding(f, roll)].rarity
            /\ Len(PoolOf(Selected(table, roll))) > 0
       /\ \A i \in 1..Len(f) :
            Cardinality({roll \in 0..(Total(f) - 1) : Selected(table, roll) = f[i].rarity})
              = f[i].weight
       /\ lastOp[1] \in RolledOps =>
            /\ pulls[1] # Null
            /\ pulls[1].rarity = f[FirstExceeding(f, lastOp[2])].rarity

C4_Witness ==
  /\ lastOp[1] = "pullWeighted"
  /\ table = Table8
  /\ cards = <<cC1, cU1, cR1, cIR>>
  /\ Total(Eligible(table)) = 995
  /\ lastOp[2] = 980
  /\ pulls[1] = cIR

\* Every card a weighted slot can yield, over all rolls and index draws.
WeightedDraws(tbl) ==
  IF version = "v1"
  THEN UNION {{pullWeighted(tbl, roll, k1, k2) :
                 k1 \in RandIdx(getByRarity(weightedRoll(tbl, roll))), k2 \in RandIdx(cards)} :
              roll \in RollSamples(filterTable(tbl))}
  ELSE UNION {{pullWeightedUnique(tbl, roll, k1, k2) :
                 k1 \in RandIdx(UniqueAvailable(tbl, roll)),
                 k2 \in RandIdx(filterUnpulled(cards))} :
              roll \in RollSamples(filteredTable(tbl))}

AtWeightedSlot == pc = "pulling" /\ IsWeightedSlot(slot) /\ Len(cards) > 0

\* C6: in the plain generator, a weighted slot all of whose table entries
\* reference an empty rarity pool draws from the whole catalog: every
\* catalog card can result, and nothing else (never null).
C6_FallbackWholeCatalog ==
  (AtWeightedSlot /\ version = "v1" /\ filterTable(SlotTable(slot)) = <<>>)
    => WeightedDraws(SlotTable(slot)) = Range(cards)

\* C7: in the plain generator, a weighted pull whose eligible entries weigh
\* zero in total draws from the whole catalog: the card drawn is a catalog
\* card and every catalog card can be drawn.  The tables of openPack carry
\* positive weights only, so the total is zero exactly when it is the empty
\* sum reduce(..., 0) over no eligible entry.
C7_ZeroTotalFallsBack ==
  (lastOp[1] = "pullWeighted" /\ Total(Eligible(table)) = 0)
    => /\ pulls[1] \in Range(cards)
       /\ WeightedDraws(table) = Range(cards)

(***************************************************************************)
(* Application                                                             *)
(***************************************************************************)
\* C8: openPack with an empty card list alerts "Set not loaded", produces no
\* pack and leaves stats, collection and storage as they were.
C8_EmptyCatalogStep ==
  (pc = "idle" /\ cardsType = "array" /\ Len(cards) = 0 /\ lastOp' = <<"openPack">>)
    => /\ outcome' = "alert:Set not loaded"
       /\ pc' = "idle"
       /\ pulls' = <<>>
       /\ UNCHANGED <<stats, collection, recentCards, localStorage>>

C8_EmptyCatalog == [][C8_EmptyCatalogStep]_vars

C8_Witness ==
  /\ lastOp = <<"openPack">>
  /\ outcome = "alert:Set not loaded"
  /\ cardsType = "array" /\ Len(cards) = 0
  /\ stats.packsOpened > 0
  /\ localStorage.collection # <<>>

Rejected(in) == in.net # "ok" \/ ~in.json.parses \/ validateSetJSON(in.json) # <<>>

LoadOps == {"loadSet", "fetchSettled"}

\* C9: a load whose input is rejected or malformed leaves the previously
\* loaded catalog and its pool index as they were.
C9_RejectedLoadStep ==
  (pc = "idle" /\ Len(cards) > 0 /\ lastOp'[1] \in LoadOps /\ Rejected(lastOp'[2]))
    => UNCHANGED <<cards, cardsType, availableRarities>>

C9_RejectedLoadKeepsCatalog == [][C9_RejectedLoadStep]_vars

RECURSIVE SumCounts(_, _)
SumCounts(coll, n) == IF n = 0 THEN 0 ELSE SumCounts(coll, n - 1) + coll[n].count

StoredCards ==
  SumCounts(hydrateCollection(localStorage), Len(hydrateCollection(localStorage)))

StoredTotalCards == hydrateStats(localStorage).totalCards

\* C10: between handlers the persisted collection and the persisted stats
\* account for the same packs: the counts of the one add up to the
\* totalCards of the other.
C10_LedgerStatsAtomic == pc = "idle" => StoredCards = StoredTotalCards

(***************************************************************************)
(* Stats and ledger                                                        *)
(***************************************************************************)
RarityCount(rar, r) == IF r \in DOMAIN rar THEN rar[r] ELSE 0

DrawnOf(ps, r) == Cardinality({i \in 1..Len(ps) : ps[i].rarity = r})

CommitStep == pc = "commit" /\ pc' = "idle"

C11_StatsStep ==
  CommitStep =>
    /\ stats'.packsOpened = stats.packsOpened + 1
    /\ stats'.totalCards = stats.totalCards + Len(pulls)
    /\ \A r \in Rarities \cup DOMAIN stats.rarities \cup DOMAIN stats'.rarities :
         RarityCount(stats'.rarities, r) = RarityCount(stats.rarities, r) + DrawnOf(pulls, r)
    /\ DOMAIN stats' = {"packsOpened", "totalCards", "rarities"}

C11_PlainTotals ==
  (version = "v1" /\ pc = "idle") => stats.totalCards = K * stats.packsOpened

\* C11: every openPack that produced a pack adds 1 to packsOpened, the
\* number of cards of the pack to totalCards and, for every rarity, the
\* number of cards of that rarity in the pack to rarities, and stats has no
\* other field; in the plain generator totalCards is 10 times packsOpened
\* whenever no pack is being opened.
C11_StatsIncrements == []C11_PlainTotals /\ [][C11_StatsStep]_vars

C11_Witness ==
  /\ version = "v1" /\ pc = "idle" /\ outcome = "ok"
  /\ stats.packsOpened = 2 /\ stats.totalCards = 2 * K
  /\ RarityCount(stats.rarities, "Common") > 8

CountOf(coll, key) ==
  IF HasKey(coll, key) THEN (CHOOSE e \in Range(coll) : e.key = key).count ELSE 0

DrawnKey(ps, key) == Cardinality({i \in 1..Len(ps) : getCardKey(ps[i]) = key})

LedgerKeys(coll) == {coll[i].key : i \in 1..Len(coll)}

C12_LedgerState ==
  /\ \A i, j \in 1..Len(collection) : i # j => collection[i].key # collection[j].key
  /\ \A i \in 1..Len(collection) : collection[i].count >= 1

C12_LedgerStep ==
  /\ lastOp' # <<"reset", TRUE>> =>
       \A key \in LedgerKeys(collection) : CountOf(collection', key) >= CountOf(collection, key)
  /\ CommitStep =>
       \A key \in LedgerKeys(collection) \cup LedgerKeys(collection') \cup Keys(pulls) :
         CountOf(collection', key) = CountOf(collection, key) + DrawnKey(pulls, key)
  /\ (~CommitStep /\ lastOp' # <<"reset", TRUE>>) => collection' = collection

\* C12: the ledger holds at most one entry per identity key and every count
\* is at least 1; only a confirmed reset removes an entry or lowers a count;
\* committing a pack adds to each identity's count the number of times the
\* pack holds it (a new entry starting from 0), and nothing else changes
\* the ledger, so a count is the number of draws since the last reset.
C12_Ledger == []C12_LedgerState /\ [][C12_LedgerStep]_vars

C12_Witness ==
  /\ pc = "idle" /\ stats.packsOpened = 2 /\ Len(collection) = 3
  /\ \E i \in 1..Len(collection) : collection[i].count >= 8
  /\ \E i \in 1..Len(collection) : collection[i].count = 3

Persisted == outcome \in {"ok", "throw:updateStatsDisplay"}

\* C13: after every openPack that ran through its persistence calls, and
\* after every confirmed reset, parsing what storage holds for stats and
\* collection (with the empty defaults for an absent key), as the script
\* does at startup, gives exactly the in-memory stats and collection.
C13_RoundTrip ==
  (pc = "idle" /\ Persisted /\ lastOp \in {<<"openPack">>, <<"reset", TRUE>>})
    => /\ hydrateStats(localStorage) = stats
       /\ hydrateCollection(localStorage) = collection

C13_Witness ==
  /\ pc = "idle" /\ outcome = "ok" /\ lastOp = <<"openPack">>
  /\ stats.packsOpened = 2 /\ Len(collection) >= 2
  /\ Cardinality(DOMAIN stats.rarities) >= 2
  /\ localStorage.packStats # <<>> /\ localStorage.collection # <<>>
  /\ hydrateStats(localStorage) = stats

C14_ResetStep ==
  /\ lastOp' = <<"reset", TRUE>> =>
       /\ stats' = [packsOpened |-> 0, totalCards |-> 0, rarities |-> <<>>]
       /\ collection' = <<>>
       /\ localStorage'.packStats = <<>>
       /\ localStorage'.collection = <<>>
       /\ UNCHANGED <<cards, cardsType, availableRarities>>
  /\ lastOp' = <<"reset", FALSE>> =>
       UNCHANGED <<cards, cardsType, availableRarities, stats, collection, recentCards,
                   localStorage, collectionFilter, inflight>>

\* C14: a confirmed reset leaves stats at {packsOpened: 0, totalCards: 0,
\* rarities: {}}, the collection empty and both storage keys removed, and
\* does not touch the catalog or the pool index; a declined reset changes
\* none of the program's variables.
C14_Reset == [][C14_ResetStep]_vars

C14_Witness ==
  /\ lastOp = <<"reset", TRUE>> /\ opens = 2 /\ Len(cards) > 0
  /\ stats.packsOpened = 0 /\ collection = <<>>
  /\ localStorage.packStats = <<>> /\ localStorage.collection = <<>>
  /\ availableRarities = buildAvailableRarities(cards)

\* C15: when a handler has refreshed the stats display (openPack past its
\* persistence calls, a confirmed reset) and the catalog holds no card of a
\* regular rarity, or no card at all, the corresponding completion ratio is
\* the defined value 0 and the refresh did not fail.
C15_NoZeroDivision ==
  (pc = "idle" /\ cardsType = "array" /\ Persisted
     /\ lastOp \in {<<"openPack">>, <<"reset", TRUE>>})
    => /\ regularMax = 0 => regularProgress = Num(0)
       /\ masterMax = 0 => masterProgress = Num(0)
       /\ outcome = "ok"

(***************************************************************************)
(* Pool index                                                              *)
(***************************************************************************)
CatalogRarities == {cards[i].rarity : i \in {h \in 1..Len(cards) : cards[h] # Null}}

CardsOfRarity(r) ==
  LET Is(c) == c # Null /\ c.rarity = r IN SelectSeq(cards, Is)

\* C16: whenever no pack is being opened, whatever loads have completed,
\* failed or are still in flight, the pool of every rarity is the sequence
\* of the current catalog's cards of that rarity, in catalog order.
C16_PoolsPartitionCatalog ==
  pc = "idle" =>
    \A r \in CatalogRarities \cup DOMAIN availableRarities : getByRarity(r) = CardsOfRarity(r)

(***************************************************************************)
(* Slot positions                                                          *)
(***************************************************************************)
C17_PositionStep ==
  (pc = "pulling" /\ pulls' # pulls)
    => /\ Len(pulls') = slot
       /\ SubSeq(pulls', 1, Len(pulls)) = pulls

C17_HitPositions ==
  (version = "v1" /\ PackDone)
    => \A i \in 1..Len(pulls) : IsHitPosition(pulls, i) <=> IsWeightedSlot(i)

\* C17: a card is appended to the pack by the slot whose index is the
\* card's position, also in the uniqueness generator when slots yield no
\* card (the slots without a card are then the last ones); and the
\* positions the plain version reveals as hits are those of the three
\* weighted slots.
C17_SlotIndex == []C17_HitPositions /\ [][C17_PositionStep]_vars

C17_Witness ==
  /\ version = "v2" /\ PackDone /\ cards = Full8
  /\ Len(pulls) = 8 /\ pulls[8].rarity \notin {"Common", "Uncommon"}

(***************************************************************************)
(* Collection view                                                         *)
(***************************************************************************)
Rendered == pc = "idle" /\ lastOp[1] = "filterChange" /\ outcome = "ok"

NumberOf(e) == parseInt(numberMatch(e.number)[1])

SuffixOf(e) == SuffixRank(numberMatch(e.number)[2])

InOrder(a, b) ==
  NumberOf(a) < NumberOf(b) \/ (NumberOf(a) = NumberOf(b) /\ SuffixOf(a) <= SuffixOf(b))

\* C18: a collection view that was produced shows exactly the ledger
\* entries whose rarity equals the filter (all of them without a filter),
\* each once, in ascending order of the integer value of the number's
\* digits and, among equal integers, of the letter suffix, the empty suffix
\* first.
C18_CollectionView ==
  Rendered =>
    LET shown == filterCollection(collection, collectionFilter)
    IN /\ Len(collectionDiv) = Len(shown)
       /\ Range(collectionDiv) = Range(shown)
       /\ \A e \in Range(collectionDiv) : collectionFilter # "" => e.rarity = collectionFilter
       /\ \A e \in Range(collection) :
            (collectionFilter = "" \/ e.rarity = collectionFilter) => e \in Range(collectionDiv)
       /\ \A i, j \in 1..Len(collectionDiv) :
            i < j => InOrder(collectionDiv[i], collectionDiv[j])

C18_Witness ==
  /\ Rendered /\ collectionFilter = "Common" /\ Len(collection) = 3
  /\ collection[1].number = <<"1", "a">>
  /\ collection[2].number = <<"1", "b">>
  /\ collection[3].number = <<"1">>
  /\ Len(collectionDiv) = 2
  /\ collectionDiv[1].number = <<"1">>
  /\ collectionDiv[2].number = <<"1", "a">>

WellFormed(e) == numberMatch(e.number) # <<>>

\* C19: rendering a collection view does not fail on an entry whose number
\* is not digits plus an optional letter: the view is produced and shows
\* every entry that passes the filter and has a well-formed number.
C19_MalformedNumberTolerated ==
  (pc = "idle" /\ lastOp[1] = "filterChange")
    => /\ outcome # "throw:renderCollection"
       /\ \A e \in Range(filterCollection(collection, collectionFilter)) :
            WellFormed(e) => e \in Range(collectionDiv)

(***************************************************************************)
(* Validation                                                              *)
(***************************************************************************)
Offending(c) ==
  c = Null \/ c.name = <<>> \/ c.number = <<>> \/ c.rarity = "" \/ c.image = <<>>

FirstMissingOf(c) ==
  IF c = Null \/ c.name = <<>> THEN "name"
  ELSE IF c.number = <<>> THEN "number"
  ELSE IF c.rarity = "" THEN "rarity"
  ELSE "image"

WellFormedSet(j) ==
  j.root = "object" /\ j.dataType = "array" /\ \A i \in 1..Len(j.data) : ~Offending(j.data[i])

FirstOffending(j) ==
  CHOOSE i \in 1..Len(j.data) : Offending(j.data[i]) /\ \A h \in 1..(i - 1) : ~Offending(j.data[h])

\* C20: on the parsed input of a load, validateSetJSON returns no error
\* exactly when the root is an object whose data is an array of cards that
\* all have a non-empty name, number, rarity and image; and for an object
\* root with a data array holding an offending card it reports the smallest
\* offending index (from 0) with the first missing field in the order name,
\* number, rarity, image.
C20_ValidateSetJSON ==
  (version = "v1" /\ lastOp[1] = "loadSet" /\ lastOp[2].json.parses)
    => LET j == lastOp[2].json
       IN /\ validateSetJSON(j) = <<>> <=> WellFormedSet(j)
          /\ (j.root = "object" /\ j.dataType = "array" /\ ~WellFormedSet(j))
               => validateSetJSON(j) =
                    <<"Card", FirstOffending(j) - 1, "missing",
                      FirstMissingOf(j.data[FirstOffending(j)])>>

(***************************************************************************)
(* Uniqueness generator: skipped slots                                     *)
(***************************************************************************)
Min(a, b) == IF a < b THEN a ELSE b

CatalogKeys == {getCardKey(cards[i]) : i \in {h \in 1..Len(cards) : cards[h] # Null}}

C21_SkipStep ==
  (version = "v2" /\ pc = "pulling" /\ slot' = slot + 1)
    => /\ pulls' = pulls <=> CatalogKeys \subseteq pulledKeys
       /\ pulls' # pulls =>
            /\ Len(pulls') = Len(pulls) + 1
            /\ getCardKey(pulls'[Len(pulls')]) \in CatalogKeys \ pulledKeys

C21_PackSize ==
  (version = "v2" /\ PackDone)
    => /\ Len(pulls) = Min(K, Cardinality(CatalogKeys))
       /\ \A i, j \in 1..Len(pulls) : i # j => getCardKey(pulls[i]) # getCardKey(pulls[j])

\* C21: in the uniqueness generator a slot yields no card exactly when
\* every identity of the catalog is already in the pack, and otherwise
\* yields a card of an identity not yet in it; so a pack holds
\* min(10, D) cards, D the number of distinct identities of the catalog,
\* and no identity twice.
C21_SkipOnlyWhenExhausted == []C21_PackSize /\ [][C21_SkipStep]_vars

C21_Witness ==
  /\ version = "v2" /\ PackDone /\ Cardinality(CatalogKeys) = 9 /\ Len(pulls) = 9
  /\ pulls[5].rarity = "Uncommon" /\ pulls[6].rarity # "Uncommon"

(***************************************************************************)
(* Plain generator: rarities of the slots                                  *)
(***************************************************************************)
NamedWithPool(tbl) == {tbl[i].rarity : i \in {h \in 1..Len(tbl) : Len(getByRarity(tbl[h].rarity)) > 0}}

\* C22: in the plain generator the cards of slots 1-4 are Common whenever a
\* Common card exists, those of slots 5-7 Uncommon whenever an Uncommon card
\* exists, and the card of a weighted slot has one of the rarities its
\* table names that have a non-empty pool, whenever there is such a rarity.
C22_SlotRarities ==
  (version = "v1" /\ pc \in {"pulling", "commit"})
    => \A i \in 1..Len(pulls) :
         /\ (i \in 1..4 /\ Len(getByRarity("Common")) > 0) => pulls[i].rarity = "Common"
         /\ (i \in 5..7 /\ Len(getByRarity("Uncommon")) > 0) => pulls[i].rarity = "Uncommon"
         /\ (i \in 8..10 /\ NamedWithPool(SlotTable(i)) # {})
              => pulls[i].rarity \in NamedWithPool(SlotTable(i))

C22_Witness ==
  /\ version = "v1" /\ PackDone /\ cards = <<cC1, cU1, cR1, cIR>>
  /\ pulls[4] = cC1 /\ pulls[7] = cU1
  /\ pulls[8] = cIR /\ pulls[9] = cU1 /\ pulls[10] = cR1

(***************************************************************************)
(* Totals                                                                  *)
(***************************************************************************)
RECURSIVE SumOver(_, _)
SumOver(f, S) ==
  IF S = {} THEN 0 ELSE LET x == CHOOSE x \in S : TRUE IN f[x] + SumOver(f, S \ {x})

SumRarities(st) == SumOver(st.rarities, DOMAIN st.rarities)

\* C23: whenever no pack is being opened, stats.totalCards equals the sum of
\* the stats.rarities counts and the sum of the counts of the collection
\* entries.
C23_TotalsAgree ==
  pc = "idle" =>
    /\ stats.totalCards = SumRarities(stats)
    /\ stats.totalCards = SumCounts(collection, Len(collection))

C23_Witness ==
  /\ pc = "idle" /\ lastOp = <<"openPack">> /\ stats.packsOpened = 1 /\ opens = 2
  /\ stats.totalCards = K /\ Len(collection) = 2
  /\ Cardinality(DOMAIN stats.rarities) = 2

(***************************************************************************)
(* Completion measures                                                     *)
(***************************************************************************)
\* C24: for a loaded catalog, the number of owned entries counted by the
\* regular-set measure never exceeds the number of regular cards of the
\* catalog, and the number of owned entries never exceeds the number of
\* cards of the catalog (no progress above 100%).
C24_ProgressAtMostFull ==
  (pc = "idle" /\ cardsType = "array" /\ ~HasNull(cards))
    => /\ regularMax > 0 => regularCollected <= regularMax
       /\ masterMax > 0 => masterCollected <= masterMax

(***************************************************************************)
(* Concurrent loads                                                        *)
(***************************************************************************)
\* A load was started and completed successfully in the previous step while
\* an earlier load was still in flight, and this step completes that earlier
\* load successfully.
C25_OvertakenLoadCompletes ==
  /\ lastOp[1] = "loadSet"
  /\ outcome = "loaded"
  /\ inflight # <<>>
  /\ lastOp'[1] = "fetchSettled"
  /\ outcome' = "loaded"

\* C25: when two loads are started one after the other and both succeed, the
\* catalog and pool index after both have completed are those of the load
\* started last: the earlier load completing later does not replace them.
C25_LastStartedStep ==
  C25_OvertakenLoadCompletes => UNCHANGED <<cards, availableRarities>>

C25_LastStartedLoadWins == [][C25_LastStartedStep]_vars

(***************************************************************************)
(* url-resolver.js: fetchWithCors, called directly and through the load of *)
(* a set from an external URL.                                             *)
(***************************************************************************)
FetchUrls ==
  { <<>>,
    <<"h", "t", "t", "p", "s", ":", "/", "/", "c", "d", "n", ".", "i", "o", "/", "a", ".", "j", "s", "o", "n">>,
    <<"h", "t", "t", "p", ":", "/", "/", "c", "d", "n", ".", "i", "o", "/", "a", ".", "j", "s", "o", "n">>,
    <<"s", "e", "t", "s", "/", "a", ".", "j", "s", "o", "n">>,
    <<"c", "d", "n", ".", "i", "o", "/", "a", ".", "j", "s", "o", "n">>,
    <<"/", "/", "c", "d", "n", ".", "i", "o", "/", "a", ".", "j", "s", "o", "n">>,
    <<"h", "t", "t", "p", "s", ":", "/", "/", "c", "d", "n", ".", "i", "o", "/", "f", "i", "l", "e", ":", "x">>,
    <<"h", "t", "t", "p", "s", ":", "/", "/", "c", "d", "n", ".", "i", "o", "/", "m", "e", "t", "a", "d", "a", "t", "a", ":", "1">>,
    <<"j", "a", "v", "a", "s", "c", "r", "i", "p", "t", ":", "a", "l", "e", "r", "t", "(", "1", ")">> }

\* options.corsProxies: absent (the configured list) or a caller's list.
ProxyOptions == {corsProxies, <<NoProxy>>, <<corsProxies[1], NoProxy>>, <<>>}

cImg == Card(<<"m", "1">>, <<"2">>, "Uncommon", <<"/", "i", "m", "g", "/", "m", ".", "p", "n", "g">>)
cAbs == Card(<<"m", "2">>, <<"3">>, "Common", <<"h", "t", "t", "p", "s", ":", "/", "/", "c", "d", "n", ".", "i", "o", "/", "m", ".", "p", "n", "g">>)

SetImg == SetJSON("object", "array", <<cImg, cAbs>>)

\* Sets served at external URLs.
ExternalInputs ==
  {UrlInput(<<"h", "t", "t", "p", "s", ":", "/", "/", "c", "d", "n", ".", "i", "o", "/", "a", ".", "j", "s", "o", "n">>, "ok", j) :
     j \in {SetA, SetImg, SetNullRoot, Unparseable}}
  \cup {UrlInput(<<"h", "t", "t", "p", "s", ":", "/", "/", "c", "d", "n", ".", "i", "o", "/", "f", "i", "l", "e", ":", "x">>, "ok", SetA)}

InitFetch ==
  /\ version = "v2"
  /\ cards = <<>>
  /\ cardsType = "array"
  /\ availableRarities = <<>>
  /\ InitRest

NextFetch ==
  \/ \E url \in FetchUrls, proxies \in ProxyOptions : FetchWithCors(url, proxies)
  \/ \E s \in Settlements : FetchAttemptSettles(s)
  \/ \E in \in ExternalInputs : LoadSetUrl(in)
  \/ ImportSettled

SpecFetch == InitFetch /\ [][NextFetch]_vars

\* A call that has tried at least one strategy and has thrown.
FetchThrown ==
  /\ fetchCall.pc = "done"
  /\ fetchCall.result.kind = "throw"
  /\ fetchCall.requests # <<>>

\* C26: fetchWithCors tries the strategies in configured order, returns the
\* first OK response, moves on to the next strategy whenever one fails
\* (network error, non-OK status or timeout), and throws only after every
\* strategy has failed.
C26_ThrowsOnlyAfterEveryStrategy ==
  /\ \A i \in 1..Len(fetchCall.requests) :
       fetchCall.requests[i] = Request(fetchCall.proxies[i], fetchCall.sanitizedUrl)
  /\ fetchCall.pc = "done" /\ fetchCall.result.kind = "return"
       => fetchCall.result.response.ok
  /\ FetchThrown => Len(fetchCall.requests) = Len(fetchCall.proxies)

(***************************************************************************)
(* Recent cards (script.js:285, 559-567): the later version starts from    *)
(* the persisted list and pushes every card of a committed pack.           *)
(***************************************************************************)
\* A persisted list of n entries written by earlier sessions (timestamp 0).
OldRecent(n) == [i \in 1..n |-> Stamped(IF i % 2 = 0 THEN cC1 ELSE cR1, 0)]

StartupRecentLengths == {0, RecentLimit - 2, RecentLimit}

RecentCatalog == <<cC1, cU1, cR1, cIR>>

InitRecent ==
  /\ version = "v2"
  /\ cards = RecentCatalog
  /\ cardsType = "array"
  /\ availableRarities = buildAvailableRarities(cards)
  /\ \E n \in StartupRecentLengths :
       localStorage = [packStats |-> <<>>, collection |-> <<>>,
                       recentCards |-> <<stringifyRecent(OldRecent(n))>>]
  /\ recentCards = hydrateRecent(localStorage)
  /\ stats = EmptyStats
  /\ collection = <<>>
  /\ collectionFilter = ""
  /\ collectionDiv = <<>>
  /\ inflight = <<>>
  /\ pc = "idle"
  /\ slot = 1
  /\ pulls = <<>>
  /\ pulledKeys = {}
  /\ outcome = "none"
  /\ lastOp = <<"init">>
  /\ opens = 0
  /\ table = <<>>
  /\ InitLib

NextRecent == OpenPackStart \/ PullUnique \/ PullWeightedUnique \/ OpenPackCommit

SpecRecent == InitRecent /\ [][NextRecent]_vars

RECURSIVE Reverse(_)
Reverse(sq) == IF sq = <<>> THEN <<>> ELSE Append(Reverse(Tail(sq)), Head(sq))

Take(sq, n) == SubSeq(sq, 1, Min(n, Len(sq)))

C27_RecentState ==
  /\ Len(recentCards) <= 20
  /\ hydrateRecent(localStorage) = recentCards
  /\ \A i, j \in 1..Len(recentCards) :
       i <= j => recentCards[i].timestamp >= recentCards[j].timestamp

C27_RecentStep ==
  CommitStep =>
    LET drawn == [i \in 1..Len(pulls) |-> Stamped(pulls[i], opens)]
    IN recentCards' = Take(Reverse(drawn) \o recentCards, 20)

\* C27: starting from a persisted list of at most 20 entries, recentCards
\* always holds at most 20 entries, most recently drawn first, and parsing
\* its persisted copy gives the same list; committing a pack leaves the
\* first 20 of the pack's cards, last drawn first, followed by the old list.
C27_RecentCards == []C27_RecentState /\ [][C27_RecentStep]_vars

\* Two packs were committed on a non-empty startup list: entries of both packs
\* lead the list and older entries were dropped from its end.
C27_Witness ==
  /\ pc = "idle" /\ outcome = "ok" /\ opens = 2
  /\ Len(recentCards) = 20
  /\ recentCards[1].timestamp = 2
  /\ \E i \in 2..19 : recentCards[i].timestamp = 1
  /\ recentCards[20].timestamp = 0
  /\ Cardinality({i \in 1..20 : recentCards[i].timestamp = 0}) < 18
  /\ localStorage.recentCards # <<>>

\* C28: a confirmed reset also empties the recent-cards list and removes its
\* persisted copy, so nothing derived from earlier packs remains.
C28_ResetStep ==
  lastOp' = <<"reset", TRUE>> => recentCards' = <<>> /\ localStorage'.recentCards = <<>>

C28_ResetClearsRecent == [][C28_ResetStep]_vars

(***************************************************************************)
(* url-resolver.js: MetaLightbox.  The methods are operators on the        *)
(* object's fields; currentIndex counts from 0 as in the source, so the    *)
(* current card is cards[currentIndex + 1].                                *)
(***************************************************************************)
MaxTimers == 2

Max(a, b) == IF a >= b THEN a ELSE b

Abs(a) == IF a >= 0 THEN a ELSE 0 - a

\* config.hooks[hookName]: null, or a function that returns a value or throws.
Hooks == {"null", "returns undefined", "returns false", "throws"}

triggerHook(hook) ==
  IF hook = "null" THEN "undefined"
  ELSE IF hook = "throws" THEN "undefined"
  ELSE IF hook = "returns false" THEN "false"
  ELSE "undefined"

\* The first, synchronous part of updateDisplay; an index outside the array
\* reads undefined.
updateDisplay(lb) ==
  IF Len(lb.cards) = 0 THEN lb
  ELSE [lb EXCEPT !.currentCard = IF lb.currentIndex + 1 \in DOMAIN lb.cards
                                  THEN lb.cards[lb.currentIndex + 1]
                                  ELSE Null]

\* The argument of open: null, an array of cards, or one card object.
NullArg == [kind |-> "null", items |-> <<>>]

ArrayArg(cs) == [kind |-> "array", items |-> cs]

ObjectArg(c) == [kind |-> "object", items |-> <<c>>]

clampIndex_upper(startIndex, n) == Min(startIndex, n - 1)

clampIndex(startIndex, n) == Max(0, Min(startIndex, n - 1))

open(lb, arg, startIndex) ==
  IF arg.kind = "null" \/ (arg.kind = "array" /\ Len(arg.items) = 0)
  THEN lb
  ELSE updateDisplay([lb EXCEPT !.cards = arg.items,
                                !.currentIndex = clampIndex(startIndex, Len(arg.items)),
                                !.isOpen = TRUE])

\* close up to the setTimeout call.
close(lb) == [lb EXCEPT !.isOpen = FALSE]

cleanup_always(lb) ==
  [lb EXCEPT !.cards = <<>>, !.currentCard = Null, !.currentIndex = -1]

\* The callback close hands to setTimeout.
cleanup(lb) ==
  IF ~lb.isOpen
  THEN [lb EXCEPT !.cards = <<>>, !.currentCard = Null, !.currentIndex = -1]
  ELSE lb

\* destroy: the listeners are removed and the state is reset at once.
destroy(lb) ==
  [lb EXCEPT !.listeners = FALSE, !.isOpen = FALSE, !.cards = <<>>, !.currentCard = Null,
             !.currentIndex = -1]

\* updateConfig({closeOnEscape: b}); hooks are chosen anew at every call.
updateConfig(lb, b) == [lb EXCEPT !.closeOnEscape = b]

prev(lb, onPrev) ==
  IF lb.currentIndex <= 0 THEN lb
  ELSE IF triggerHook(onPrev) = "false" THEN lb
  ELSE updateDisplay([lb EXCEPT !.currentIndex = @ - 1])

next(lb, onNext) ==
  IF lb.currentIndex >= Len(lb.cards) - 1 THEN lb
  ELSE IF triggerHook(onNext) = "false" THEN lb
  ELSE updateDisplay([lb EXCEPT !.currentIndex = @ + 1])

LightboxOpen(arg, startIndex) ==
  /\ lightbox' = open(lightbox, arg, startIndex)
  /\ lastOp' = <<"open", arg, startIndex>>
  /\ UNCHANGED <<gameVars, fetchCall, timers>>

LightboxClose ==
  /\ timers < MaxTimers
  /\ lightbox' = close(lightbox)
  /\ timers' = timers + 1
  /\ lastOp' = <<"close">>
  /\ UNCHANGED <<gameVars, fetchCall>>

CleanupTimerFires ==
  /\ timers > 0
  /\ timers' = timers - 1
  /\ lightbox' = cleanup(lightbox)
  /\ lastOp' = <<"timer">>
  /\ UNCHANGED <<gameVars, fetchCall>>

LightboxDestroy ==
  /\ lightbox' = destroy(lightbox)
  /\ lastOp' = <<"destroy">>
  /\ UNCHANGED <<gameVars, fetchCall, timers>>

LightboxUpdateConfig(b) ==
  /\ lightbox' = updateConfig(lightbox, b)
  /\ lastOp' = <<"updateConfig", b>>
  /\ UNCHANGED <<gameVars, fetchCall, timers>>

LightboxPrev(onPrev) ==
  /\ lightbox' = prev(lightbox, onPrev)
  /\ lastOp' = <<"prev", onPrev>>
  /\ UNCHANGED <<gameVars, fetchCall, timers>>

LightboxNext(onNext) ==
  /\ lightbox' = next(lightbox, onNext)
  /\ lastOp' = <<"next", onNext>>
  /\ UNCHANGED <<gameVars, fetchCall, timers>>

Keys_ == {"Escape", "ArrowLeft", "ArrowRight", "a"}

\* The document keydown listener; onNav is the onPrev or onNext hook.
KeyDown(key, onKeyDown, onNav) ==
  /\ lightbox.listeners
  /\ lastOp' = <<"keydown", key, onKeyDown, onNav>>
  /\ IF ~lightbox.isOpen \/ triggerHook(onKeyDown) = "false"
     THEN UNCHANGED <<lightbox, timers>>
     ELSE IF key = "Escape" /\ lightbox.closeOnEscape
     THEN /\ timers < MaxTimers
          /\ lightbox' = close(lightbox)
          /\ timers' = timers + 1
     ELSE /\ lightbox' = IF key = "ArrowLeft" THEN prev(lightbox, onNav)
                         ELSE IF key = "ArrowRight" THEN next(lightbox, onNav)
                         ELSE lightbox
          /\ timers' = timers
  /\ UNCHANGED <<gameVars, fetchCall>>

swipeThreshold == 50

\* The touchend listener after a touchstart away from the origin.
TouchEnd(deltaX, deltaY, onSwipe, onNav) ==
  /\ lightbox.listeners
  /\ lastOp' = <<"touchend", deltaX, deltaY, onSwipe, onNav>>
  /\ lightbox' = IF Abs(deltaX) > Abs(deltaY) /\ Abs(deltaX) > swipeThreshold
                 THEN IF deltaX > 0 THEN prev(lightbox, onNav) ELSE next(lightbox, onNav)
                 ELSE lightbox
  /\ UNCHANGED <<gameVars, fetchCall, timers>>

LightboxArgs ==
  {NullArg, ArrayArg(<<>>), ArrayArg(<<cC1>>), ArrayArg(<<cC1, cU1>>),
   ArrayArg(<<cU1, cR1, cC1>>), ObjectArg(cR1)}

StartIndices == -1..3

Deltas == {<<-60, 0>>, <<60, 0>>, <<-20, 0>>, <<60, 80>>}

InitLightbox ==
  /\ version = "v2"
  /\ cards = <<>>
  /\ cardsType = "array"
  /\ availableRarities = <<>>
  /\ InitRest

NextLightbox ==
  \/ \E arg \in LightboxArgs, startIndex \in StartIndices : LightboxOpen(arg, startIndex)
  \/ LightboxClose
  \/ CleanupTimerFires
  \/ LightboxDestroy
  \/ \E b \in BOOLEAN : LightboxUpdateConfig(b)
  \/ \E h \in Hooks : LightboxPrev(h)
  \/ \E h \in Hooks : LightboxNext(h)
  \/ \E key \in Keys_, h1 \in Hooks, h2 \in Hooks : KeyDown(key, h1, h2)
  \/ \E d \in Deltas, h1 \in Hooks, h2 \in Hooks : TouchEnd(d[1], d[2], h1, h2)

SpecLightbox == InitLightbox /\ [][NextLightbox]_vars

(***************************************************************************)
(* Lightbox navigation                                                     *)
(***************************************************************************)
C29_InRange ==
  lightbox.isOpen =>
    /\ Len(lightbox.cards) > 0
    /\ 0 <= lightbox.currentIndex
    /\ lightbox.currentIndex <= Len(lightbox.cards) - 1

\* open ignores a missing or empty card list and otherwise starts at the
\* start index moved into 0..length-1; prev at the first card and next at
\* the last card change nothing.
C29_OpenAndEnds ==
  /\ lastOp'[1] = "open" =>
       LET arg == lastOp'[2]
           startIndex == lastOp'[3]
           n == Len(arg.items)
       IN IF n = 0
          THEN lightbox' = lightbox
          ELSE /\ lightbox'.isOpen
               /\ lightbox'.cards = arg.items
               /\ lightbox'.currentIndex =
                    (IF startIndex < 0 THEN 0 ELSE IF startIndex > n - 1 THEN n - 1
                     ELSE startIndex)
  /\ (lastOp'[1] = "prev" /\ lightbox.isOpen /\ lightbox.currentIndex = 0)
       => lightbox' = lightbox
  /\ (lastOp'[1] = "next" /\ lightbox.isOpen
        /\ lightbox.currentIndex = Len(lightbox.cards) - 1)
       => lightbox' = lightbox

\* The hooks a handler consults before it moves: onPrev and onNext in prev
\* and next (called directly, from a key or from a swipe), onKeyDown in the
\* keydown listener.
C29_NavigationHookFalse ==
  \/ lastOp'[1] \in {"prev", "next"} /\ lastOp'[2] = "returns false"
  \/ lastOp'[1] = "keydown"
       /\ (lastOp'[3] = "returns false" \/ lastOp'[4] = "returns false")
  \/ lastOp'[1] = "touchend" /\ lastOp'[5] = "returns false"

\* Any hook of the handler that ran returned false, the onSwipe hook of the
\* swipe listener included.
C29_AnyHookFalse ==
  \/ C29_NavigationHookFalse
  \/ lastOp'[1] = "touchend" /\ lastOp'[4] = "returns false"

C29_AnyHookStep ==
  C29_OpenAndEnds /\ (C29_AnyHookFalse => lightbox'.currentIndex = lightbox.currentIndex)

\* C29 (as stated): while the lightbox is open the index stays within
\* 0..cards.length-1 with cards non-empty; open clamps the start index and
\* ignores an empty list; prev at the first card and next at the last card
\* change nothing; a hook returning false leaves the index unchanged.
C29_IndexInRange_AnyHook == []C29_InRange /\ [][C29_AnyHookStep]_vars

C29_NavigationHookStep ==
  C29_OpenAndEnds
    /\ (C29_NavigationHookFalse => lightbox'.currentIndex = lightbox.currentIndex)

\* C29 (amended): as stated, with the hooks that can veto a move being
\* onPrev, onNext and onKeyDown; the result of onSwipe is not consulted.
C29_IndexInRange == []C29_InRange /\ [][C29_NavigationHookStep]_vars

\* open was given two cards and a start index past the end and moved it to
\* the last card.
C29_Witness ==
  /\ lastOp = <<"open", ArrayArg(<<cC1, cU1>>), 3>>
  /\ lightbox.isOpen
  /\ lightbox.currentIndex = 1
  /\ lightbox.currentCard = cU1

(***************************************************************************)
(* Lightbox close and its delayed cleanup                                  *)
(***************************************************************************)
\* While the lightbox is open its card list changes only by an open that
\* takes effect, which installs the list it was given; the index changes
\* only by an open or by navigation; a cleanup timer changes neither.
C30_OpenStateStep ==
  lightbox'.isOpen =>
    /\ IF lastOp'[1] = "open" /\ lastOp'[2].items # <<>>
       THEN lightbox'.cards = lastOp'[2].items
       ELSE lightbox.isOpen /\ lightbox'.cards = lightbox.cards
    /\ lastOp'[1] \in {"timer", "close"} => lightbox' = lightbox

\* After a close, once no cleanup timer is pending, the state is cleared.
C30_ClearedAfterClose ==
  (~lightbox.isOpen /\ timers = 0) =>
    /\ lightbox.cards = <<>>
    /\ lightbox.currentIndex = -1
    /\ lightbox.currentCard = Null

\* C30: the delayed cleanup scheduled by close never clears a lightbox that
\* has been reopened: whenever isOpen is true the card list and index are
\* those of the most recent open and its navigation, and once every timer
\* has fired after a final close the card list is empty and currentIndex is
\* -1.
C30_CleanupSparesReopened == []C30_ClearedAfterClose /\ [][C30_OpenStateStep]_vars

\* A cleanup timer fired on a lightbox reopened after the close that
\* scheduled it, and left its cards and index alone.
C30_Witness ==
  /\ lastOp = <<"timer">>
  /\ lightbox.isOpen
  /\ lightbox.cards = <<cU1, cR1, cC1>>
  /\ lightbox.currentIndex = 2
  /\ timers = 0
====
